---- MODULE Spec2Model ----
(***************************************************************************)
(* Model of the OneDrive incremental enumeration engine of corso:          *)
(*   internal/connector/onedrive/collections.go                            *)
(*     deserializeMetadata / deserializeMap   (previous-backup metadata)   *)
(*     Collections.Get                        (per-drive enumeration)      *)
(*     Collections.UpdateCollections          (one item event at a time)   *)
(*     updatePath / updateCollectionPaths     (subtree move propagation)   *)
(*     Collection (NewCollection, Add, Remove, SetFullPath)                *)
(*                                                                         *)
(* Strings that the code searches by prefix (paths) are sequences of       *)
(* characters; a path.Path is a sequence of elements, each a sequence of   *)
(* characters.  Go maps are functions with a finite domain.                *)
(***************************************************************************)
EXTENDS Integers, Sequences, FiniteSets, TLC

VARIABLES
    pc,                 \* position of Get: idle, load, enum, done, failed, panic
    cols,               \* prevMetadata handed to Get ([]data.RestoreCollection)
    matcher,            \* Collections.matcher (folder selector)
    prevDeltas,         \* result of deserializeMetadata: drive id -> delta
    oldPathsByDriveID,  \* result of deserializeMetadata: drive id -> id -> path
    driveIdx,           \* index in Drives of the drive being enumerated
    CollectionMap,      \* Collections.CollectionMap: container id -> Collection
    NumItems,           \* Collections.NumItems
    NumFiles,           \* Collections.NumFiles
    NumContainers,      \* Collections.NumContainers
    deltaURLs,          \* Get: drive id -> delta URL to persist
    folderPaths,        \* Get: drive id -> folder id -> path to persist
    excludedItems,      \* Get: exclusion set returned
    oldPaths,           \* collectItems: previous paths of the current drive
    newPaths,           \* collectItems: folder id -> path being rebuilt
    excluded,           \* collectItems: exclusions of the current drive
    itemCollection,     \* collectItems: file id -> container id holding it
    invalidPrevDelta,   \* collectItems: previous delta unusable (reset)
    nEvents,            \* item events consumed so far in the run
    nResets,            \* invalid-delta responses so far in the run
    seenSince,          \* ids of root/folder upserts handled since the (re)start
    failFast,           \* control.Options.FailFast (ctrl.FailFast)
    opc,                \* position of populateItems: idle, start, loop,
                        \* acquire, wait, reported
    driveItems,         \* Collection.driveItems: ids of the items to stream
    wpc,                \* populateItems: item id -> position of its goroutine
    lazy,               \* populateItems: item id -> its lazy data reader
    errs,               \* populateItems: ids recorded by errUpdater
    semaphoreCh,        \* populateItems: slots of the semaphore taken
    data,               \* Collection.data: the stream items in the buffer
    received,           \* stream items the consumer of Items() received
    closes,             \* calls of close(oc.data)
    statuses,           \* calls of oc.statusUpdater
    lpc,                \* position of loadSiteLists: idle, loop,
                        \* acquire, wait, returned
    fpc,                \* loadSiteLists: list -> position of its goroutine
    fetchSem,           \* loadSiteLists: slots of semaphoreCh taken
    results,            \* loadSiteLists: the lists appended to results
    et,                 \* loadSiteLists: lists whose error the tracker holds
    mans,               \* mergeDetails: the base manifests ([]*kopia.ManifestEntry)
    shortRefsFromPrevBackup, \* mergeDetails: previous repo ref -> PrevRefs
    deets,              \* mergeDetails: the error returned and the entries built
    knownFolders,       \* details.Builder.knownFolders: ShortRef -> folderEntry
    added,              \* the calls of AddFoldersForItem made so far
    Entries,            \* details.Builder.d.Entries ([]DetailsEntry)
    calls,              \* the calls of Builder.Add and Builder.Details so far
    newAdditions,       \* eventCalendarCache.newAdditions: display name -> id
    cache,              \* containerResolver.cache: the ids of the cached folders
    addRet              \* what the calls of AddToCache returned, in order

\* the variables of Collections.Get
getVars == <<pc, cols, matcher, prevDeltas, oldPathsByDriveID, driveIdx,
             CollectionMap, NumItems, NumFiles, NumContainers, deltaURLs,
             folderPaths, excludedItems, oldPaths, newPaths, excluded,
             itemCollection, invalidPrevDelta, nEvents, nResets,
             seenSince>>

\* the variables of Collection.populateItems, of loadSiteLists, and of
\* mergeDetails with the details.Builder it fills
itemVars == <<opc, driveItems, wpc, lazy, errs, semaphoreCh, data, received,
              closes, statuses>>
listVars == <<lpc, fpc, fetchSem, results, et>>
mergeVars == <<mans, shortRefsFromPrevBackup, deets, knownFolders, added,
               Entries, calls>>

\* the variables of eventCalendarCache
cacheVars == <<newAdditions, cache, addRet>>

vars == <<getVars, failFast, itemVars, listVars, mergeVars, cacheVars>>

----------------------------------------------------------------------------
(* Bounds of the model *)

\* item events handed to UpdateCollections in one run of Get (Spec)
MaxEvents == 2
\* container events handed to UpdateCollections in one run of Get (SpecTree)
MaxTreeEvents == 3
\* invalid-delta (resync) responses of the item pager in one run of Get
MaxResets == 1
\* metadata files in the input of deserializeMetadata (SpecMeta)
MaxFiles == 3
\* sub-folder entries of the collection populateItems streams (SpecPool)
MaxItems == 6
\* lists of the site loadSiteLists fetches (SpecPool)
MaxLists == 6

----------------------------------------------------------------------------
(* Go maps *)

EmptyMap == [k \in {} |-> <<>>]

Put(m, k, v) == [x \in (DOMAIN m) \cup {k} |-> IF x = k THEN v ELSE m[x]]

Del(m, k) == [x \in (DOMAIN m) \ {k} |-> m[x]]

Restrict(m, ks) == [x \in (DOMAIN m) \cap ks |-> m[x]]

\* maps.Copy(dst, src)
MapCopy(dst, src) ==
    [x \in (DOMAIN dst) \cup (DOMAIN src) |-> IF x \in DOMAIN src THEN src[x] ELSE dst[x]]

\* m[k] of a map[string]string: the zero value "" when the key is missing
Lookup(m, k) == IF k \in DOMAIN m THEN m[k] ELSE <<>>

----------------------------------------------------------------------------
(* Strings and paths *)

Sep == "/"

\* strings.HasPrefix
HasPrefix(s, pre) == Len(pre) <= Len(s) /\ SubSeq(s, 1, Len(pre)) = pre

\* strings.Replace(s, old, new, 1) for an s that has old as a prefix
ReplacePrefix(s, old, new) == new \o SubSeq(s, Len(old) + 1, Len(s))

\* path.Path.String(): the elements joined by "/"
RECURSIVE PathString(_)
PathString(es) ==
    IF es = <<>> THEN <<>>
    ELSE IF Len(es) = 1 THEN es[1]
    ELSE es[1] \o <<Sep>> \o PathString(Tail(es))

\* strings.Split(p, "/") followed by path.Builder.Append, which drops the
\* empty elements
RECURSIVE SplitFrom(_, _, _)
SplitFrom(s, cur, acc) ==
    IF s = <<>> THEN (IF cur = <<>> THEN acc ELSE Append(acc, cur))
    ELSE IF Head(s) = Sep
         THEN SplitFrom(Tail(s), <<>>, IF cur = <<>> THEN acc ELSE Append(acc, cur))
         ELSE SplitFrom(Tail(s), Append(cur, Head(s)), acc)

SplitPath(s) == SplitFrom(s, <<>>, <<>>)

\* the absent (nil) path.Path
NilPath == <<>>

\* tenant/service/resource-owner/category elements every data-layer path
\* of the run starts with
CanonPrefix == << <<"t">>, <<"onedrive">>, <<"u">>, <<"files">> >>

----------------------------------------------------------------------------
(* The drives, ids and names of the model *)

\* the drives of the resource owner, in the order the drive pager lists them
Drives == <<"d1", "d2">>

DriveSet == {Drives[i] : i \in 1..Len(Drives)}

NameA == <<"a">>
NameAB == <<"a", "b">>
Names == {NameA, NameAB}

RootID(d) == IF d = "d1" THEN "root" ELSE "root2"
FolderIDs(d) == IF d = "d1" THEN {"A", "B"} ELSE {"A2"}
FileIDs(d) == IF d = "d1" THEN {"f"} ELSE {"f2"}

\* fmt.Sprintf(rootDrivePattern, driveID): "/drives/<id>/root:"
RootDriveStr(d) == <<Sep, "drives", Sep, d, Sep, "root:">>

\* delta tokens: the one of the previous backup and the one the pager returns
NoDelta == <<>>
PrevToken == <<"t0">>
NewToken == <<"t1">>

----------------------------------------------------------------------------
(* deserializeMetadata *)

PreviousPathFileName == "previouspath"
DeltaURLsFileName == "deltas"

\* deserializeMap: file is [name, ok, body]; ok is whether the JSON decodes.
\* Returns the error ("" for none) and the updated alreadyFound.
deserializeMap(file, alreadyFound) ==
    IF ~file.ok
    THEN [err |-> "decode", m |-> alreadyFound]
    ELSE IF \E k \in DOMAIN file.body : k \in DOMAIN alreadyFound
    THEN [err |-> "errExistingMapping", m |-> alreadyFound]
    ELSE [err |-> "", m |-> MapCopy(alreadyFound, file.body)]

\* the item loop of one collection (collections.go 134-192); st is
\* [err, deltas, folders]
RECURSIVE deserializeItems(_, _)
deserializeItems(items, st) ==
    IF items = <<>> \/ st.err THEN st
    ELSE LET item == Head(items) IN
         IF item.name = PreviousPathFileName
         THEN LET r == deserializeMap(item, st.folders) IN
              deserializeItems(Tail(items),
                  [st EXCEPT !.err = (r.err = "errExistingMapping"), !.folders = r.m])
         ELSE IF item.name = DeltaURLsFileName
         THEN LET r == deserializeMap(item, st.deltas) IN
              deserializeItems(Tail(items),
                  [st EXCEPT !.err = (r.err = "errExistingMapping"), !.deltas = r.m])
         ELSE deserializeItems(Tail(items), st)

\* removePartial without the test for an empty delta token
removePartialKeepsEmptyDelta(st) ==
    LET keep == {k \in DOMAIN st.deltas : k \in DOMAIN st.folders}
    IN  [st EXCEPT !.deltas = Restrict(st.deltas, keep),
                   !.folders = Restrict(st.folders, keep)]

\* a removal that also drops the drives whose folder map is empty
removePartialDropsEmptyPaths(st) ==
    LET empties == {k \in DOMAIN st.deltas : Len(st.deltas[k]) = 0}
                       \cup {k \in DOMAIN st.folders : st.folders[k] = EmptyMap}
        folders1 == Restrict(st.folders, (DOMAIN st.folders) \ empties)
        deltas1 == Restrict(st.deltas,
                       {k \in DOMAIN st.deltas : k \notin empties /\ k \in DOMAIN folders1})
        folders2 == Restrict(folders1, DOMAIN deltas1)
    IN  [st EXCEPT !.deltas = deltas1, !.folders = folders2]

\* removal of partial results after each collection (collections.go 194-214)
removePartial(st) ==
    LET empties == {k \in DOMAIN st.deltas : Len(st.deltas[k]) = 0}
        folders1 == Restrict(st.folders, (DOMAIN st.folders) \ empties)
        deltas1 == Restrict(st.deltas,
                       {k \in DOMAIN st.deltas : k \notin empties /\ k \in DOMAIN folders1})
        folders2 == Restrict(folders1, DOMAIN deltas1)
    IN  [st EXCEPT !.deltas = deltas1, !.folders = folders2]

RECURSIVE deserializeCols(_, _)
deserializeCols(cs, st) ==
    IF cs = <<>> THEN st
    ELSE LET st1 == deserializeItems(Head(cs), st) IN
         IF st1.err THEN [err |-> TRUE, deltas |-> EmptyMap, folders |-> EmptyMap]
         ELSE deserializeCols(Tail(cs), removePartial(st1))

deserializeMetadata(cs) ==
    deserializeCols(cs, [err |-> FALSE, deltas |-> EmptyMap, folders |-> EmptyMap])

----------------------------------------------------------------------------
(* path package and Collection *)

\* GetCanonicalPath for OneDriveSource: the split elements of p behind the
\* tenant, service, owner and category elements
GetCanonicalPath(p) == CanonPrefix \o SplitPath(p)

\* path.FromDataLayerPath(p, false): error when fewer than five elements
FromDataLayerPathOK(p) == Len(SplitPath(p)) > Len(CanonPrefix)
FromDataLayerPath(p) == SplitPath(p)

\* path.GetDriveFolderPath: the folders behind drives/<id>/root:, joined;
\* the last element of an item path is not a folder.  ok is FALSE when the
\* drive elements are missing.
GetDriveFolderPath(es, isItem) ==
    LET all == SubSeq(es, Len(CanonPrefix) + 1, Len(es))
        folders == IF isItem /\ all # <<>> THEN SubSeq(all, 1, Len(all) - 1) ELSE all
    IN  IF Len(folders) < 3 THEN [ok |-> FALSE, str |-> <<>>]
        ELSE [ok |-> TRUE, str |-> PathString(SubSeq(folders, 4, Len(folders)))]

\* data.StateOf(prevPath, fullPath)
StateOf(prev, curr) ==
    IF curr = NilPath THEN "Deleted"
    ELSE IF prev = NilPath THEN "New"
    ELSE IF PathString(curr) # PathString(prev) THEN "Moved"
    ELSE "NotMoved"

\* path.Path.UpdateParent(prev, cur): when prev's elements are a proper or
\* equal prefix of the receiver's elements, they are replaced by cur's
\* (collections.go 479: "Only updates if initialCurPath parent of colPath")
UpdateParent(colPath, prev, cur) ==
    IF Len(prev) <= Len(colPath) /\ SubSeq(colPath, 1, Len(prev)) = prev
    THEN [updated |-> TRUE, path |-> cur \o SubSeq(colPath, Len(prev) + 1, Len(colPath))]
    ELSE [updated |-> FALSE, path |-> colPath]

NewCollection(folderPath, prevPath, driveID, doNotMergeItems) ==
    [folderPath |-> folderPath,
     prevPath |-> prevPath,
     driveItems |-> {},
     driveID |-> driveID,
     state |-> StateOf(prevPath, folderPath),
     doNotMergeItems |-> doNotMergeItems]

\* SetFullPath that leaves the state as it was
SetFullPathStaleState(col, curPath) == [col EXCEPT !.folderPath = curPath]

\* Collection.SetFullPath
SetFullPath(col, curPath) ==
    [col EXCEPT !.folderPath = curPath, !.state = StateOf(col.prevPath, curPath)]

\* Collection.Add: the collection with the item, and whether the item is new
CollectionAdd(col, id) ==
    [col |-> [col EXCEPT !.driveItems = @ \cup {id}], isNew |-> id \notin col.driveItems]

\* a Remove that reports success and leaves the item in place
CollectionRemoveNothing(col, id) == [col |-> col, removed |-> TRUE]

\* Collection.Remove
CollectionRemove(col, id) ==
    [col |-> [col EXCEPT !.driveItems = @ \ {id}], removed |-> id \in col.driveItems]

MetaFileSuffix == ".meta"
DataFileSuffix == ".data"

----------------------------------------------------------------------------
(* folder selector *)

\* folderMatcher: any is IsAny(); Matches holds of a folder path whose first
\* folder is one of the selected names
MatchAny == [any |-> TRUE, folders |-> {}]
MatchA == [any |-> FALSE, folders |-> {NameA}]

Matches(m, folderStr) ==
    m.any \/ (SplitPath(folderStr) # <<>> /\ SplitPath(folderStr)[1] \in m.folders)

includePath(m, es, isItem) ==
    LET r == GetDriveFolderPath(es, isItem) IN
    IF ~r.ok THEN TRUE
    ELSE IF Len(r.str) = 0 /\ m.any THEN TRUE
    ELSE Matches(m, r.str)

\* a test that skips nothing
shouldSkipDriveNever(m, es, isItem) == FALSE

\* shouldSkipDrive for the FilesCategory (the restricted-directory test
\* applies to LibrariesCategory only)
shouldSkipDrive(m, es, isItem) ==
    IF es = NilPath THEN FALSE ELSE ~includePath(m, es, isItem)

----------------------------------------------------------------------------
(* updatePath and updateCollectionPaths *)

\* updatePath without the prefix search over the rest of the map
updatePathNoSubtree(paths, id, newPath) == Put(paths, id, newPath)

updatePath(paths, id, newPath) ==
    LET oldPath == Lookup(paths, id) IN
    IF Len(oldPath) = 0 THEN Put(paths, id, newPath)
    ELSE IF oldPath = newPath THEN paths
    ELSE [k \in DOMAIN paths |->
            IF HasPrefix(paths[k], oldPath)
            THEN ReplacePrefix(paths[k], oldPath, newPath)
            ELSE paths[k]]

\* the orders in which a range loop can visit the keys S of a Go map
Orders(S) ==
    {o \in [1..Cardinality(S) -> S] : \A i, j \in DOMAIN o : i # j => o[i] # o[j]}

\* a loop that stops after the first entry it rewrote
RECURSIVE updatePathLoopStops(_, _, _, _)
updatePathLoopStops(paths, order, oldPath, newPath) ==
    IF order = <<>> THEN paths
    ELSE LET folderID == Head(order)
             p == paths[folderID]
         IN  IF ~HasPrefix(p, oldPath)
             THEN updatePathLoopStops(paths, Tail(order), oldPath, newPath)
             ELSE [paths EXCEPT ![folderID] = ReplacePrefix(p, oldPath, newPath)]

\* the loop of updatePath (836-842), visiting the keys in the given order
\* and writing the map in place
RECURSIVE updatePathLoop(_, _, _, _)
updatePathLoop(paths, order, oldPath, newPath) ==
    IF order = <<>> THEN paths
    ELSE LET folderID == Head(order)
             p == paths[folderID]
         IN  updatePathLoop(IF ~HasPrefix(p, oldPath) THEN paths
                            ELSE [paths EXCEPT ![folderID] =
                                      ReplacePrefix(p, oldPath, newPath)],
                            Tail(order), oldPath, newPath)

\* updatePath with the order of its range loop made explicit
updatePathInOrder(paths, id, newPath, order) ==
    LET oldPath == Lookup(paths, id) IN
    IF Len(oldPath) = 0 THEN Put(paths, id, newPath)
    ELSE IF oldPath = newPath THEN paths
    ELSE updatePathLoop(paths, order, oldPath, newPath)

\* updateCollectionPaths: [found, cmap, panic].  panic is the nil-pointer
\* dereference of FullPath() of a collection without a full path.
updateCollectionPaths(id, cmap, curPath) ==
    IF id \notin DOMAIN cmap
    THEN [found |-> FALSE, cmap |-> cmap, panic |-> FALSE]
    ELSE LET initialCurPath == cmap[id].folderPath IN
         IF initialCurPath = NilPath
         THEN [found |-> TRUE, cmap |-> cmap, panic |-> TRUE]
         ELSE IF PathString(initialCurPath) = PathString(curPath)
         THEN [found |-> TRUE, cmap |-> cmap, panic |-> FALSE]
         ELSE IF \E i \in DOMAIN cmap : i # id /\ cmap[i].folderPath = NilPath
         THEN [found |-> TRUE, cmap |-> cmap, panic |-> TRUE]
         ELSE [found |-> TRUE,
               panic |-> FALSE,
               cmap |-> [i \in DOMAIN cmap |->
                          IF i = id THEN SetFullPath(cmap[i], curPath)
                          ELSE LET u == UpdateParent(cmap[i].folderPath, initialCurPath, curPath)
                               IN  IF u.updated THEN SetFullPath(cmap[i], u.path)
                                   ELSE cmap[i]]]

----------------------------------------------------------------------------
(* Collections.UpdateCollections: the body of the loop, for one item *)

\* An item (models.DriveItemable) is
\*   [kind, id, deleted, parentRef, parentId, parentPath, name]
\* kind is "root", "folder", "package", "file" or "other" (none of the
\* facets); parentRef is FALSE when the parent reference (or its id, or for
\* a live item its path) is missing.
\*
\* The loop state st is
\*   [cmap, newPaths, excluded, itemCollection, NumItems, NumFiles,
\*    NumContainers, res]
\* res is "ok" (next item), "error" (UpdateCollections returns an error) or
\* "panic".

Fail(st, how) == [st EXCEPT !.res = how]

\* case item.GetFolder() != nil, item.GetPackage() != nil (590-669)
FolderItem(st, item, driveID, old, invalid, itemPath) ==
    LET known == item.id \in DOMAIN old IN
    IF known /\ ~FromDataLayerPathOK(old[item.id]) THEN Fail(st, "error")
    ELSE
    LET prevPath == IF known THEN FromDataLayerPath(old[item.id]) ELSE NilPath IN
    IF item.deleted
    THEN LET st1 == [st EXCEPT !.newPaths = Del(st.newPaths, item.id)] IN
         IF prevPath = NilPath THEN st1
         ELSE [st1 EXCEPT !.cmap =
                  Put(st.cmap, item.id, NewCollection(NilPath, prevPath, driveID, invalid))]
    ELSE LET np == updatePath(st.newPaths, item.id, PathString(itemPath))
             r == updateCollectionPaths(item.id, st.cmap, itemPath)
         IN  IF r.panic THEN Fail(st, "panic")
             ELSE LET cm1 == IF r.found THEN r.cmap
                             ELSE Put(r.cmap, item.id,
                                      NewCollection(itemPath, prevPath, driveID, invalid))
                      a == CollectionAdd(cm1[item.id], item.id)
                  IN  [st EXCEPT !.newPaths = np,
                                 !.cmap = Put(cm1, item.id, a.col),
                                 !.NumContainers = IF r.found THEN @ ELSE @ + 1,
                                 !.NumItems = IF a.isNew THEN @ + 1 ELSE @]

\* the exclusion of the data file alone
ExcludeFileDataOnly(ex, id, invalid) ==
    IF ~invalid THEN ex \cup {<<id, DataFileSuffix>>} ELSE ex

\* lines 672-679: unless the previous delta is invalid the file's data and
\* meta entries are excluded (the key id+suffix is the pair <<id, suffix>>)
ExcludeFile(ex, id, invalid) ==
    IF ~invalid
    THEN ex \cup {<<id, DataFileSuffix>>, <<id, MetaFileSuffix>>}
    ELSE ex

\* case item.GetFile() != nil (671-761)
FileItem(st, item, driveID, old, invalid, collectionPath) ==
    LET collectionID == item.parentId
        st1 == [st EXCEPT !.excluded = ExcludeFile(st.excluded, item.id, invalid)]
    IN
    IF item.deleted
    THEN [st1 EXCEPT !.NumFiles = @ + 1, !.NumItems = @ + 1]
    ELSE
    LET dfp == GetDriveFolderPath(collectionPath, FALSE) IN
    IF ~dfp.ok THEN Fail(st1, "error")
    ELSE
    LET atRoot == Len(dfp.str) = 0
        known == collectionID \in DOMAIN old
    IN
    IF ~atRoot /\ known /\ ~FromDataLayerPathOK(old[collectionID]) THEN Fail(st1, "error")
    ELSE
    LET prevCollectionPath ==
            IF atRoot THEN collectionPath
            ELSE IF known THEN FromDataLayerPath(old[collectionID])
            ELSE NilPath
        found == collectionID \in DOMAIN st.cmap
        cm1 == IF found THEN st.cmap
               ELSE Put(st.cmap, collectionID,
                        NewCollection(collectionPath, prevCollectionPath, driveID, invalid))
        st2 == [st1 EXCEPT !.cmap = cm1,
                           !.NumContainers = IF found THEN @ ELSE @ + 1]
        moved == item.id \in DOMAIN st.itemCollection
    IN
    IF moved /\ st.itemCollection[item.id] \notin DOMAIN cm1 THEN Fail(st2, "error")
    ELSE
    LET rm == IF moved
              THEN CollectionRemove(cm1[st.itemCollection[item.id]], item.id)
              ELSE [col |-> cm1[collectionID], removed |-> TRUE]
    IN
    IF ~rm.removed THEN Fail(st2, "error")
    ELSE
    LET cm2 == IF moved THEN Put(cm1, st.itemCollection[item.id], rm.col) ELSE cm1
        a == CollectionAdd(cm2[collectionID], item.id)
    IN  [st2 EXCEPT !.cmap = Put(cm2, collectionID, a.col),
                    !.itemCollection = Put(st.itemCollection, item.id, collectionID),
                    !.NumItems = IF a.isNew THEN @ + 1 ELSE @,
                    !.NumFiles = IF a.isNew THEN @ + 1 ELSE @]

\* a root case that also counts the root as a container
RootItemCountsContainer(st, item, driveID) ==
    [st EXCEPT !.newPaths =
                   updatePath(st.newPaths, item.id,
                              PathString(GetCanonicalPath(RootDriveStr(driveID)))),
               !.NumContainers = @ + 1]

\* a root case that also creates the collection of the root folder
RootItemMakesCollection(st, item, driveID) ==
    [st EXCEPT !.newPaths =
                   updatePath(st.newPaths, item.id,
                              PathString(GetCanonicalPath(RootDriveStr(driveID)))),
               !.cmap = Put(st.cmap, item.id,
                            NewCollection(GetCanonicalPath(RootDriveStr(driveID)),
                                          NilPath, driveID, FALSE))]

\* a root case that puts the root path in oldPaths as well
RootItemWritesOldPaths(st, item, driveID) ==
    [st EXCEPT !.newPaths =
                   updatePath(st.newPaths, item.id,
                              PathString(GetCanonicalPath(RootDriveStr(driveID)))),
               !.oldPaths =
                   updatePath(st.oldPaths, item.id,
                              PathString(GetCanonicalPath(RootDriveStr(driveID))))]

\* if item.GetRoot() != nil (511-528): the root path of the drive is put in
\* newPaths and the loop goes on with the next item
RootItem(st, item, driveID) ==
    [st EXCEPT !.newPaths =
         updatePath(st.newPaths, item.id,
                    PathString(GetCanonicalPath(RootDriveStr(driveID))))]

\* the body of the loop over the items of a page (504-766)
UpdateCollectionsItem(st, item, driveID, old, invalid, m) ==
    IF item.kind = "root" THEN RootItem(st, item, driveID)
    ELSE IF ~item.parentRef THEN Fail(st, "error")
    ELSE IF item.deleted /\ item.parentId \notin DOMAIN old THEN st
    ELSE
    LET collectionPathStr == IF ~item.deleted THEN item.parentPath ELSE old[item.parentId]
        collectionPath == GetCanonicalPath(collectionPathStr)
        isFolder == item.kind \in {"folder", "package"}
    IN
    IF ~item.deleted /\ Len(item.name) = 0 THEN Fail(st, "error")
    ELSE
    LET itemPath == IF item.deleted THEN NilPath ELSE Append(collectionPath, item.name) IN
    IF shouldSkipDrive(m, itemPath, ~isFolder) /\ shouldSkipDrive(m, collectionPath, FALSE)
    THEN st
    ELSE IF isFolder THEN FolderItem(st, item, driveID, old, invalid, itemPath)
    ELSE IF item.kind = "file" THEN FileItem(st, item, driveID, old, invalid, collectionPath)
    ELSE Fail(st, "error")

----------------------------------------------------------------------------
(* Inputs: the item events of a drive and the previous metadata *)

\* the data-layer path string of the root of drive d, and of a child
RootStr(d) == PathString(GetCanonicalPath(RootDriveStr(d)))
Under(str, name) == str \o <<Sep>> \o name

\* "B" is a package, the other containers are folders
KindOf(id) == IF id = "B" THEN "package" ELSE "folder"

Item(kind, id, deleted, parentRef, parentId, parentPath, name) ==
    [kind |-> kind, id |-> id, deleted |-> deleted, parentRef |-> parentRef,
     parentId |-> parentId, parentPath |-> parentPath, name |-> name]

\* the parents an upsert of drive d may name, with the parent path the
\* server sends: the root, or another folder lying at <root>/a
ParentsOf(d, id) ==
    {<<RootID(d), RootDriveStr(d)>>}
    \cup {<<p, Under(RootDriveStr(d), NameA)>> : p \in FolderIDs(d) \ {id}}

ItemsOf(d) ==
    {Item("root", RootID(d), FALSE, FALSE, "", <<>>, <<"root">>)}
    \cup {Item("file", f, FALSE, FALSE, "", <<>>, <<"x">>) : f \in FileIDs(d)}
    \cup UNION {{Item(KindOf(id), id, FALSE, TRUE, p[1], p[2], n) :
                    p \in ParentsOf(d, id), n \in Names} : id \in FolderIDs(d)}
    \cup UNION {{Item(KindOf(id), id, TRUE, TRUE, p, <<>>, <<>>) :
                    p \in {RootID(d)} \cup (FolderIDs(d) \ {id})} : id \in FolderIDs(d)}
    \cup UNION {{Item("file", f, FALSE, TRUE, p[1], p[2], <<"x">>) :
                    p \in ParentsOf(d, f)} : f \in FileIDs(d)}
    \cup {Item("file", f, TRUE, TRUE, p, <<>>, <<>>) :
            f \in FileIDs(d), p \in {RootID(d)} \cup FolderIDs(d)}

\* folder maps of a previous backup.  PrevNested: B lies in A.  PrevOnlyB:
\* the backup knows B alone, under a name that has the name "a" as a prefix;
\* A was created since.
PrevNested ==
    [d \in DriveSet |->
        IF d = "d1"
        THEN ("root" :> RootStr(d)) @@ ("A" :> Under(RootStr(d), NameA))
             @@ ("B" :> Under(Under(RootStr(d), NameA), NameA))
        ELSE ("root2" :> RootStr(d)) @@ ("A2" :> Under(RootStr(d), NameA))]

PrevOnlyB ==
    [d \in DriveSet |->
        IF d = "d1"
        THEN ("root" :> RootStr(d)) @@ ("B" :> Under(RootStr(d), NameAB))
        ELSE ("root2" :> RootStr(d))]

MetaFile(name, ok, body) == [name |-> name, ok |-> ok, body |-> body]

\* the metadata collection a previous run of Get wrote: both files
MetadataOf(paths, deltas) ==
    << << MetaFile(PreviousPathFileName, TRUE, paths),
          MetaFile(DeltaURLsFileName, TRUE, deltas) >> >>

AllPrevDeltas == [d \in DriveSet |-> PrevToken]

\* prevMetadata of the runs of Get: none (first backup) or one of the two
\* previous backups
GetInputs ==
    {<<>>, MetadataOf(PrevNested, AllPrevDeltas), MetadataOf(PrevOnlyB, AllPrevDeltas)}

----------------------------------------------------------------------------
(* Collection.populateItems and the lazy data reader of a file              *)

\* sizes of the buffers (collections.go 871-878): oc.data, and the
\* semaphore of populateItems
collectionChannelBufferSize == 5
urlPrefetchChannelBufferSize == 5

\* a drive folder of two files (SpecItems streams it, with the entry of the
\* folder itself), and a folder of sub-folder entries only (SpecPool), one
\* more than the semaphore has slots
FileItems == {"f1", "f2"}
FolderNames == <<"d1", "d2", "d3", "d4", "d5", "d6", "d7", "d8">>
PoolItems == {FolderNames[n] : n \in 1..MaxItems}
ItemIDs == FileItems \cup {"dir"} \cup PoolItems
IsFile(i) == i \in FileItems

\* the lazy reader of an item:
\*   st        absent (no data item was sent), ready (sent, not read yet),
\*             refetch, check (positions inside the function given to
\*             lazy.NewLazyReadCloser), ok, err (what the read returned)
\*   downloads calls of oc.itemReader
\*   refetches calls of getDriveItem
\*   item      the closure's item: listed (from the delta page), refreshed,
\*             nil (getDriveItem failed)
\*   err       the closure's err: none, unauthorized, other, expired
NoReader ==
    [st |-> "absent", downloads |-> 0, refetches |-> 0, item |-> "listed",
     err |-> "none"]

ItemsIdle ==
    /\ opc = "idle"
    /\ driveItems = {}
    /\ wpc = [i \in ItemIDs |-> "none"]
    /\ lazy = [i \in ItemIDs |-> NoReader]
    /\ errs = {}
    /\ semaphoreCh = 0
    /\ data = <<>>
    /\ received = {}
    /\ closes = 0
    /\ statuses = 0

\* errUpdater (1118-1122)
errUpdater(es, id) == es \cup {id}

\* the stream items of item i (1235-1239, 1270-1274)
DataItem(i) == <<i, "data">>
MetaItem(i) == <<i, "meta">>

\* reportAsCompleted (1295-1309): oc.data is closed and the status is handed
\* to the status updater
reportAsCompleted ==
    /\ closes' = closes + 1
    /\ statuses' = statuses + 1

\* populateItems, lines 1101-1105: the folder path of the collection is
\* resolved; on error the status is reported at once
PopulateBegin(pathOK) ==
    /\ opc = "start"
    /\ IF pathOK
       THEN opc' = "loop" /\ UNCHANGED <<closes, statuses>>
       ELSE opc' = "reported" /\ reportAsCompleted
    /\ UNCHANGED <<driveItems, wpc, lazy, errs, semaphoreCh, data, received>>
    /\ UNCHANGED <<getVars, failFast, listVars, mergeVars, cacheVars>>

\* the head of an iteration of the loop over oc.driveItems (1124-1127).  errs
\* is read without the mutex errUpdater writes it under: once an error is
\* recorded the read gives the error or still nil
LoopCheck(sees) ==
    /\ opc = "loop"
    /\ sees => errs # {}
    /\ opc' = IF \/ \A i \in driveItems : wpc[i] # "none"
                 \/ failFast /\ sees
              THEN "wait" ELSE "acquire"
    /\ UNCHANGED <<driveItems, wpc, lazy, errs, semaphoreCh, data, received,
                   closes, statuses>>
    /\ UNCHANGED <<getVars, failFast, listVars, mergeVars, cacheVars>>

\* a start that does not wait for a slot of the semaphore
HasSlotAlways(n, size) == TRUE

\* semaphoreCh <- struct{}{} (1129; loadSiteLists 230) blocks while each of
\* the size slots is taken
HasSlot(n, size) == n < size

\* lines 1129-1133: a slot is taken and the goroutine of item i is started
StartWorker(i) ==
    /\ opc = "acquire"
    /\ i \in driveItems
    /\ wpc[i] = "none"
    /\ HasSlot(semaphoreCh, urlPrefetchChannelBufferSize)
    /\ semaphoreCh' = semaphoreCh + 1
    /\ wpc' = [wpc EXCEPT ![i] = "started"]
    /\ opc' = "loop"
    /\ UNCHANGED <<driveItems, lazy, errs, data, received, closes, statuses>>
    /\ UNCHANGED <<getVars, failFast, listVars, mergeVars, cacheVars>>

\* a channel that takes every send at once
HasRoomAlways(buf) == TRUE

\* oc.data was made with collectionChannelBufferSize places (Items' channel)
HasRoom(buf) == Len(buf) < collectionChannelBufferSize

\* oc.data <- item, by the goroutine of item i that goes on at position
\* next: the send blocks while the buffer is full, and panics on the closed
\* channel.  The deferred calls of a goroutine that ends give the slot back
\* and call wg.Done (1134-1135).
Send(i, item, next) ==
    IF closes > 0
    THEN /\ wpc' = [wpc EXCEPT ![i] = "panic"]
         /\ UNCHANGED <<data, semaphoreCh>>
    ELSE /\ HasRoom(data)
         /\ data' = Append(data, item)
         /\ wpc' = [wpc EXCEPT ![i] = next]
         /\ semaphoreCh' = IF next = "done" THEN semaphoreCh - 1 ELSE semaphoreCh

\* a reader whose making calls oc.itemReader
NewEagerReadCloser(r) == [r EXCEPT !.st = "check", !.downloads = @ + 1]

\* lazy.NewLazyReadCloser (1195): the reader is made and the function given
\* to it is kept for the first read; nothing is called
NewLazyReadCloser(r) == [r EXCEPT !.st = "ready"]

\* the goroutine of item i (1133-1240): the metadata is fetched; on error
\* the error is recorded and nothing is sent, otherwise the data item of a
\* file, with its lazy reader, or the meta item of a folder is sent on
\* oc.data
WorkerRun(i, metaOK) ==
    /\ wpc[i] = "started"
    /\ IF ~metaOK
       THEN /\ errs' = errUpdater(errs, i)
            /\ wpc' = [wpc EXCEPT ![i] = "failed"]
            /\ semaphoreCh' = semaphoreCh - 1
            /\ UNCHANGED <<lazy, data>>
       ELSE /\ IF IsFile(i)
               THEN /\ Send(i, DataItem(i), "data")
                    /\ lazy' = IF closes = 0
                               THEN [lazy EXCEPT ![i] = NewLazyReadCloser(@)]
                               ELSE lazy
               ELSE /\ Send(i, MetaItem(i), "done")
                    /\ UNCHANGED lazy
            /\ UNCHANGED errs
    /\ UNCHANGED <<opc, driveItems, received, closes, statuses>>
    /\ UNCHANGED <<getVars, failFast, listVars, mergeVars, cacheVars>>

\* the goroutine of a file sends the meta item after the data item
\* (1242-1287)
WorkerMeta(i) ==
    /\ wpc[i] = "data"
    /\ Send(i, MetaItem(i), "done")
    /\ UNCHANGED <<opc, driveItems, lazy, errs, received, closes, statuses>>
    /\ UNCHANGED <<getVars, failFast, listVars, mergeVars, cacheVars>>

\* a report that does not wait for the goroutines
AllDoneAlways(w) == TRUE

\* wg.Wait() (1290; loadSiteLists 262) returns when every goroutine started has called wg.Done
AllDone(w) == \A i \in DOMAIN w : w[i] \notin {"started", "data"}

\* wg.Wait() and reportAsCompleted (1290-1292)
Report ==
    /\ opc = "wait"
    /\ AllDone(wpc)
    /\ opc' = "reported"
    /\ reportAsCompleted
    /\ UNCHANGED <<driveItems, wpc, lazy, errs, semaphoreCh, data, received>>
    /\ UNCHANGED <<getVars, failFast, listVars, mergeVars, cacheVars>>

\* the consumer of Items() receives the next stream item of oc.data
Receive ==
    /\ data # <<>>
    /\ received' = received \cup {Head(data)}
    /\ data' = Tail(data)
    /\ UNCHANGED <<opc, driveItems, wpc, lazy, errs, semaphoreCh, closes,
                   statuses>>
    /\ UNCHANGED <<getVars, failFast, listVars, mergeVars, cacheVars>>

\* the consumer holds the reader of item i once it received the data item
InHand(i, got) == DataItem(i) \in got

\* the consumer reads the data of item i: the lazy function calls
\* oc.itemReader (1202); an unauthorized error leads to the re-fetch of the
\* item (1204), any other outcome to the error check (1217)
ReaderDownload(i, outcome) ==
    /\ lazy[i].st = "ready"
    /\ InHand(i, received)
    /\ lazy' = [lazy EXCEPT ![i].downloads = @ + 1,
                            ![i].err = outcome,
                            ![i].st = IF outcome = "unauthorized"
                                      THEN "refetch" ELSE "check"]
    /\ UNCHANGED <<opc, driveItems, wpc, errs, semaphoreCh, data, received,
                   closes, statuses>>
    /\ UNCHANGED <<getVars, failFast, listVars, mergeVars, cacheVars>>

\* lines 1209-1213: getDriveItem; on error err becomes the wrapped error;
\* item is set to what getDriveItem returned
ReaderRefetch(i, ok) ==
    /\ lazy[i].st = "refetch"
    /\ lazy' = [lazy EXCEPT ![i].refetches = @ + 1,
                            ![i].err = IF ok THEN @ ELSE "expired",
                            ![i].item = IF ok THEN "refreshed" ELSE "nil",
                            ![i].st = "check"]
    /\ UNCHANGED <<opc, driveItems, wpc, errs, semaphoreCh, data, received,
                   closes, statuses>>
    /\ UNCHANGED <<getVars, failFast, listVars, mergeVars, cacheVars>>

\* lines 1216-1232: "check for errors following retries"
ReaderCheck(i) ==
    /\ lazy[i].st = "check"
    /\ IF lazy[i].err # "none"
       THEN /\ errs' = errUpdater(errs, i)
            /\ lazy' = [lazy EXCEPT ![i].st = "err"]
       ELSE /\ lazy' = [lazy EXCEPT ![i].st = "ok"]
            /\ UNCHANGED errs
    /\ UNCHANGED <<opc, driveItems, wpc, semaphoreCh, data, received, closes,
                   statuses>>
    /\ UNCHANGED <<getVars, failFast, listVars, mergeVars, cacheVars>>

----------------------------------------------------------------------------
(* loadSiteLists (sharepoint): the lists of a site are fetched by a pool    *)

\* size of the semaphore of loadSiteLists; the declaration is not part of
\* the sources at hand, the value is within the default the specification
\* gives for the fetcher pool (4 to 8)
fetchChannelSize == 5

\* listIDs: the lists are taken in the order of the slice
ListIDs == 1..MaxLists

ListsIdle ==
    /\ lpc = "idle"
    /\ fpc = [l \in ListIDs |-> "none"]
    /\ fetchSem = 0
    /\ results = {}
    /\ et = {}

\* et.Err() of the fault tracker: the failure that stops the operation; a
\* recorded error becomes the failure when failFast is set
TrackerErr(es) == failFast /\ es # {}

\* the head of an iteration of the loop over listIDs (225-228)
ListCheck ==
    /\ lpc = "loop"
    /\ lpc' = IF \/ \A l \in ListIDs : fpc[l] # "none"
                 \/ TrackerErr(et)
              THEN "wait" ELSE "acquire"
    /\ UNCHANGED <<fpc, fetchSem, results, et>>
    /\ UNCHANGED <<getVars, failFast, itemVars, mergeVars, cacheVars>>

\* lines 230-234: a slot is taken and the fetch of the next list is started
StartFetch(l) ==
    /\ lpc = "acquire"
    /\ fpc[l] = "none"
    /\ \A k \in ListIDs : k < l => fpc[k] # "none"
    /\ HasSlot(fetchSem, fetchChannelSize)
    /\ fetchSem' = fetchSem + 1
    /\ fpc' = [fpc EXCEPT ![l] = "started"]
    /\ lpc' = "loop"
    /\ UNCHANGED <<results, et>>
    /\ UNCHANGED <<getVars, failFast, itemVars, mergeVars, cacheVars>>

\* fetchListItems (303-350) when the fields of an item cannot be fetched:
\* the error is added to the tracker of fetchListItems, the item is left
\* out, and the items fetched so far are returned with et.Err()
fetchListItems(es, l) ==
    LET es1 == es \cup {l} IN [et |-> es1, err |-> TrackerErr(es1)]

\* the goroutine of list l (234-259): the list and its contents are
\* fetched; an error returned by either is added to the tracker, otherwise
\* the list is appended to results; the deferred calls give the slot back
\* and call wg.Done.  outcome: ok, get (the list cannot be fetched),
\* contents (a page of columns, content types or items cannot be fetched),
\* fields (the fields of one item cannot be fetched)
FetchRun(l, outcome) ==
    /\ fpc[l] = "started"
    /\ IF outcome = "ok"
       THEN /\ results' = results \cup {l}
            /\ fpc' = [fpc EXCEPT ![l] = "done"]
            /\ UNCHANGED et
       ELSE IF outcome = "fields" /\ ~fetchListItems(et, l).err
       THEN /\ results' = results \cup {l}
            /\ fpc' = [fpc EXCEPT ![l] = "done"]
            /\ et' = fetchListItems(et, l).et
       ELSE /\ et' = et \cup {l}
            /\ fpc' = [fpc EXCEPT ![l] = "failed"]
            /\ UNCHANGED results
    /\ fetchSem' = fetchSem - 1
    /\ UNCHANGED lpc
    /\ UNCHANGED <<getVars, failFast, itemVars, mergeVars, cacheVars>>

\* wg.Wait() and the return of results (262-264)
ListsReturn ==
    /\ lpc = "wait"
    /\ AllDone(fpc)
    /\ lpc' = "returned"
    /\ UNCHANGED <<fpc, fetchSem, results, et>>
    /\ UNCHANGED <<getVars, failFast, itemVars, mergeVars, cacheVars>>

----------------------------------------------------------------------------
(* mergeDetails (operations, backup): the merge of the details of the base  *)
(* backups into the details of the new backup, after section 4.7 of the     *)
(* specification and the table of                                           *)
(* TestBackupOperation_MergeBackupDetails_AddsItems                         *)

\* base manifests handed to one call of mergeDetails
MaxMans == 2

\* kopia.Reason: pathReason1 (OneDrive files of the user) and pathReason3
\* (Exchange email of the user)
pathReason1 == "onedrive/files"
pathReason3 == "exchange/email"

\* repo paths of the items, each a folder and an item name
itemPath1 == <<"work", "item1">>
itemPath2 == <<"personal", "item2">>
itemPath3 == <<"personal", "item3">>
RepoPaths == {itemPath1, itemPath2, itemPath3}

\* the repo path of an item that moved to another folder
MovedPath(p) == <<"moved", p[2]>>

\* the Reason (resource owner, service, category) of a repo path
ReasonOf(p) == IF p[2] = "item3" THEN pathReason3 ELSE pathReason1

BackupIDs == {"bid1", "bid2"}

\* populatedDetails of the MultipleBases case: the items of the details of
\* each base backup, repo path -> size
DetailsOf(bid) ==
    IF bid = "bid1"
    THEN Put(EmptyMap, itemPath1, 42)
    ELSE Put(Put(EmptyMap, itemPath1, 84), itemPath3, 37)

\* kopia.ManifestEntry: the backup id tag, the IncompleteReason of the
\* snapshot manifest (makeManifest) and the Reasons
ManifestEntries ==
    [backupID : BackupIDs,
     IncompleteReason : {"", "checkpoint"},
     Reasons : {{pathReason1}, {pathReason3}, {pathReason1, pathReason3}}]

ManifestInputs == UNION {[1..n -> ManifestEntries] : n \in 0..MaxMans}

\* inputShortRefsFromPrevBackup: previous repo path -> PrevRefs.Repo, the
\* repo path in the new backup (the same path, or the moved one)
RefInputs ==
    UNION {{r \in [D -> RepoPaths \cup {MovedPath(p) : p \in RepoPaths}] :
                \A p \in D : r[p] \in {p, MovedPath(p)}} : D \in SUBSET RepoPaths}

\* a Builder no Add and no Details was called on; last is the method
\* called last, AddFoldersForItem included
NoCalls == [adds |-> 0, details |-> 0, last |-> "none"]

\* deets before mergeDetails returned
NoDeets == [err |-> "pending", entries |-> {}]

MergeIdle ==
    /\ mans = <<>>
    /\ shortRefsFromPrevBackup = EmptyMap
    /\ deets = NoDeets
    /\ knownFolders = EmptyMap
    /\ added = <<>>
    /\ Entries = <<>>
    /\ calls = NoCalls

\* a covering set that does not skip the incomplete manifests
CoveringManifestsAny(ms, p) ==
    {i \in DOMAIN ms : ReasonOf(p) \in ms[i].Reasons}

\* the manifests matched for the item at previous repo path p: the complete
\* ones whose Reasons include the item's
CoveringManifests(ms, p) ==
    {i \in DOMAIN ms : /\ ms[i].IncompleteReason = ""
                       /\ ReasonOf(p) \in ms[i].Reasons}

NoEntry == [RepoRef |-> <<>>, Size |-> 0, Updated |-> FALSE]

\* a merge of one entry that copies the Updated flag of the prior entry
MergeOneKeepsFlag(ms, refs, old) ==
    LET cov == CoveringManifests(ms, old) IN
    IF Cardinality(cov) > 1 THEN [err |-> "Configuration", entry |-> NoEntry]
    ELSE IF cov = {} THEN [err |-> "MissingBase", entry |-> NoEntry]
    ELSE LET ledger == DetailsOf(ms[CHOOSE i \in cov : TRUE].backupID) IN
         IF old \notin DOMAIN ledger
         THEN [err |-> "MissingBase", entry |-> NoEntry]
         ELSE [err |-> "none",
               entry |-> [RepoRef |-> refs[old], Size |-> ledger[old],
                          Updated |-> FALSE]]

\* the merge of one PrevRefs entry: an error, or the details entry emitted
MergeOne(ms, refs, old) ==
    LET cov == CoveringManifests(ms, old) IN
    IF Cardinality(cov) > 1 THEN [err |-> "Configuration", entry |-> NoEntry]
    ELSE IF cov = {} THEN [err |-> "MissingBase", entry |-> NoEntry]
    ELSE LET ledger == DetailsOf(ms[CHOOSE i \in cov : TRUE].backupID) IN
         IF old \notin DOMAIN ledger
         THEN [err |-> "MissingBase", entry |-> NoEntry]
         ELSE [err |-> "none",
               entry |-> [RepoRef |-> refs[old], Size |-> ledger[old],
                          Updated |-> refs[old] # old]]

\* a merge that leaves out the items it cannot merge
mergeDetailsDropsFailing(ms, refs) ==
    LET merged == {p \in DOMAIN refs : MergeOne(ms, refs, p).err = "none"}
    IN  {[err |-> "none", entries |-> {MergeOne(ms, refs, p).entry : p \in merged}]}

\* the results mergeDetails can return: without an error the entries of
\* every item; with errors the error of one of the failing items, and the
\* entries added to the builder before it (the items are taken in the
\* order of a Go map)
mergeDetails(ms, refs) ==
    LET failing == {p \in DOMAIN refs : MergeOne(ms, refs, p).err # "none"}
        merged == (DOMAIN refs) \ failing
        EntriesOf(S) == {MergeOne(ms, refs, p).entry : p \in S}
    IN  IF failing = {}
        THEN {[err |-> "none", entries |-> EntriesOf(merged)]}
        ELSE {[err |-> MergeOne(ms, refs, p).err, entries |-> EntriesOf(S)] :
                 p \in failing, S \in SUBSET merged}

\* the call of mergeDetails
MergeDetails ==
    /\ deets = NoDeets
    /\ \E res \in mergeDetails(mans, shortRefsFromPrevBackup) : deets' = res
    /\ UNCHANGED <<mans, shortRefsFromPrevBackup, knownFolders, added, Entries, calls>>
    /\ UNCHANGED <<getVars, failFast, itemVars, listVars, cacheVars>>

----------------------------------------------------------------------------
(* details.Builder: the folder entries cached for the items of a backup     *)

\* calls of AddFoldersForItem on one Builder
MaxAdds == 3

\* the folders of the items (path.Builder elements)
ItemParents == {<<"u", "a">>, <<"u", "a", "b">>, <<"u", "c">>}

\* ItemInfo of an item: its size and its modification time; the zero
\* time.Time is 0
ItemInfos == [Size : {1, 2}, Modified : {1, 2}]

\* FolderEntriesForPath (169-211): one entry per non-empty prefix of parent,
\* the deepest first, each with a new FolderInfo.  The ShortRef, a hash of
\* the path, is the path itself.
FolderEntriesForPath(parent) ==
    [i \in 1..Len(parent) |->
        LET folder == SubSeq(parent, 1, Len(parent) - i + 1) IN
        [RepoRef |-> folder,
         ShortRef |-> folder,
         Updated |-> FALSE,
         Info |-> [DisplayName |-> folder[Len(folder)], Modified |-> 0, Size |-> 0]]]

\* a loop body that ignores the cached entry
UpsertFolderFresh(known, folder, itemInfo, updated) ==
    Put(known, folder.ShortRef,
        [folder EXCEPT !.Info.Size = @ + itemInfo.Size,
                       !.Info.Modified = IF @ < itemInfo.Modified
                                         THEN itemInfo.Modified ELSE @,
                       !.Updated = IF updated THEN TRUE ELSE @])

\* the body of the loop of AddFoldersForItem (238-260): the cached entry
\* takes the place of the given one, the item's size is added, the later
\* modification time is kept and the updated flag is propagated
UpsertFolder(known, folder, itemInfo, updated) ==
    LET f == IF folder.ShortRef \in DOMAIN known THEN known[folder.ShortRef]
             ELSE folder
    IN  Put(known, folder.ShortRef,
            [f EXCEPT !.Info.Size = @ + itemInfo.Size,
                      !.Info.Modified = IF @ < itemInfo.Modified
                                        THEN itemInfo.Modified ELSE @,
                      !.Updated = IF updated THEN TRUE ELSE @])

\* Builder.AddFoldersForItem (230-262)
RECURSIVE AddFoldersForItem(_, _, _, _)
AddFoldersForItem(known, folders, itemInfo, updated) ==
    IF folders = <<>> THEN known
    ELSE AddFoldersForItem(UpsertFolder(known, Head(folders), itemInfo, updated),
                           Tail(folders), itemInfo, updated)

\* a call of AddFoldersForItem for an item in folder parent
AddFolders(parent, itemInfo, updated) ==
    /\ Len(added) < MaxAdds
    /\ knownFolders' = AddFoldersForItem(knownFolders, FolderEntriesForPath(parent),
                                         itemInfo, updated)
    /\ added' = Append(added, [parent |-> parent, info |-> itemInfo, updated |-> updated])
    /\ calls' = [calls EXCEPT !.last = "AddFoldersForItem"]
    /\ UNCHANGED <<mans, shortRefsFromPrevBackup, deets, Entries>>
    /\ UNCHANGED <<getVars, failFast, itemVars, listVars, cacheVars>>

\* calls of Builder.Add and of Builder.Details on one Builder
MaxLedgerAdds == 2
MaxDetails == 2

\* the items given to Builder.Add, by their shortRef
LedgerItems == {"i1", "i2"}

\* Details.add (275-288): the entry of an item is appended
add(entries, shortRef, updated, info) ==
    Append(entries, [RepoRef |-> <<shortRef>>, ShortRef |-> <<shortRef>>,
                     Updated |-> updated, ItemInfo |-> info, Folder |-> FALSE])

\* Details.addFolder (290-299): the entry of a folder is appended
addFolder(entries, folder) ==
    Append(entries, [RepoRef |-> folder.RepoRef, ShortRef |-> folder.ShortRef,
                     Updated |-> folder.Updated, ItemInfo |-> folder.Info,
                     Folder |-> TRUE])

\* the loop of Builder.Details (156-158) visiting the folders in order
RECURSIVE addFolders(_, _, _)
addFolders(entries, known, order) ==
    IF order = <<>> THEN entries
    ELSE addFolders(addFolder(entries, known[Head(order)]), known, Tail(order))

\* Builder.Add (137-145), under the mutex of the Builder
Add(shortRef, updated, info) ==
    /\ calls.adds < MaxLedgerAdds
    /\ Entries' = add(Entries, shortRef, updated, info)
    /\ calls' = [calls EXCEPT !.adds = @ + 1, !.last = "Add"]
    /\ UNCHANGED <<mans, shortRefsFromPrevBackup, deets, knownFolders, added>>
    /\ UNCHANGED <<getVars, failFast, itemVars, listVars, cacheVars>>

\* Builder.Details (151-161), under the mutex of the Builder: the cached
\* folder entries are written to b.d, and &b.d is returned
Details ==
    /\ calls.details < MaxDetails
    /\ \E order \in Orders(DOMAIN knownFolders) :
           Entries' = addFolders(Entries, knownFolders, order)
    /\ calls' = [calls EXCEPT !.details = @ + 1, !.last = "Details"]
    /\ UNCHANGED <<mans, shortRefsFromPrevBackup, deets, knownFolders, added>>
    /\ UNCHANGED <<getVars, failFast, itemVars, listVars, cacheVars>>

----------------------------------------------------------------------------
(* eventCalendarCache: the calendars added to the resolver by name          *)

\* calls of AddToCache on one cache
MaxCacheAdds == 3

\* a nil *string of a container
NoValue == "nil"

\* the containers given to AddToCache: [id, name] (GetId, GetDisplayName)
CalendarIDs == {"c1", "c2"}
CalendarNames == {"n1", "n2"}
Containers == [id : CalendarIDs \cup {NoValue}, name : CalendarNames \cup {NoValue}]

CacheIdle ==
    /\ newAdditions = EmptyMap
    /\ cache = {}
    /\ addRet = <<>>

\* checkIDAndName: the container has an id and a display name
checkIDAndName(f) == f.id # NoValue /\ f.name # NoValue

\* containerResolver.addFolder: [err, cache]; an idempotent insert that
\* fails when the id or the display name is missing
crAddFolder(c, f) ==
    IF ~checkIDAndName(f) THEN [err |-> TRUE, cache |-> c]
    ELSE [err |-> FALSE, cache |-> c \cup {f.id}]

\* eventCalendarCache.DestinationNameToID on the map m
DestinationNameToID(m, dest) == IF dest \in DOMAIN m THEN m[dest] ELSE ""

\* eventCalendarCache.AddToCache (part_001 90-122); pathOK is whether
\* IDToPath resolves the path of the added container
AddToCache(f, pathOK) ==
    /\ Len(addRet) < MaxCacheAdds
    /\ IF ~checkIDAndName(f)
       THEN /\ addRet' = Append(addRet, "validating container")
            /\ UNCHANGED <<newAdditions, cache>>
       ELSE LET na == Put(newAdditions, f.name, f.id)
                r == crAddFolder(cache, f)
            IN  IF r.err
                THEN /\ newAdditions' = Del(na, f.name)
                     /\ addRet' = Append(addRet, "adding container")
                     /\ UNCHANGED cache
                ELSE IF ~pathOK
                THEN /\ newAdditions' = Del(na, f.name)
                     /\ cache' = r.cache
                     /\ addRet' = Append(addRet, "setting path to container id")
                ELSE /\ newAdditions' = na
                     /\ cache' = r.cache
                     /\ addRet' = Append(addRet, "nil")
    /\ UNCHANGED <<getVars, failFast, itemVars, listVars, mergeVars>>

----------------------------------------------------------------------------
(* Collections.Get *)

\* Get adding no tombstone at all
DeletedFoldersNone(cmap, old, paths, driveID) ==
    IF \E i \in DOMAIN cmap : cmap[i].folderPath = NilPath
    THEN [cmap |-> cmap, res |-> "panic"]
    ELSE [cmap |-> cmap, res |-> "ok"]

\* Get adding a tombstone for every folder that is gone, whether or not a
\* collection lies at its previous path
DeletedFoldersNoModifiedPaths(cmap, old, paths, driveID) ==
    IF \E i \in DOMAIN cmap : cmap[i].folderPath = NilPath
    THEN [cmap |-> cmap, res |-> "panic"]
    ELSE
    LET gone == {i \in DOMAIN old : i \notin DOMAIN paths}
    IN  IF \E i \in gone : ~FromDataLayerPathOK(old[i])
        THEN [cmap |-> cmap, res |-> "error"]
        ELSE [res |-> "ok",
              cmap |-> [i \in (DOMAIN cmap) \cup gone |->
                          IF i \in gone
                          THEN NewCollection(NilPath, FromDataLayerPath(old[i]), driveID, TRUE)
                          ELSE cmap[i]]]

\* the tombstones Get adds for a drive whose enumeration was reset
\* (collections.go 360-400): [cmap, res]
DeletedFolders(cmap, old, paths, driveID) ==
    IF \E i \in DOMAIN cmap : cmap[i].folderPath = NilPath
    THEN [cmap |-> cmap, res |-> "panic"]
    ELSE
    LET modifiedPaths == {PathString(cmap[i].folderPath) : i \in DOMAIN cmap}
        gone == {i \in DOMAIN old : i \notin DOMAIN paths /\ old[i] \notin modifiedPaths}
    IN  IF \E i \in gone : ~FromDataLayerPathOK(old[i])
        THEN [cmap |-> cmap, res |-> "error"]
        ELSE [res |-> "ok",
              cmap |-> [i \in (DOMAIN cmap) \cup gone |->
                          IF i \in gone
                          THEN NewCollection(NilPath, FromDataLayerPath(old[i]), driveID, TRUE)
                          ELSE cmap[i]]]

\* Get storing the paths of a drive only when there are any
FinishOneDrivePathsIfAny(driveID, deltaURL, reset, paths, excl, old, durls, fpaths, exItems, cmap) ==
    LET durls1 == IF Len(deltaURL) > 0 THEN Put(durls, driveID, deltaURL) ELSE durls
        fpaths1 == IF paths # EmptyMap
                   THEN Put(fpaths, driveID, MapCopy(EmptyMap, paths)) ELSE fpaths
    IN  IF ~reset
        THEN [deltaURLs |-> durls1, folderPaths |-> fpaths1,
              excludedItems |-> exItems \cup excl, cmap |-> cmap, res |-> "ok"]
        ELSE LET t == DeletedFolders(cmap, old, paths, driveID) IN
             [deltaURLs |-> durls1, folderPaths |-> fpaths1,
              excludedItems |-> exItems, cmap |-> t.cmap, res |-> t.res]

\* what Get does with the result of collectItems for one drive
\* (collections.go 328-400): [deltaURLs, folderPaths, excludedItems, cmap, res]
FinishOneDrive(driveID, deltaURL, reset, paths, excl, old, durls, fpaths, exItems, cmap) ==
    LET durls1 == IF Len(deltaURL) > 0 THEN Put(durls, driveID, deltaURL) ELSE durls
        fpaths1 == Put(fpaths, driveID, MapCopy(EmptyMap, paths))
    IN  IF ~reset
        THEN [deltaURLs |-> durls1, folderPaths |-> fpaths1,
              excludedItems |-> exItems \cup excl, cmap |-> cmap, res |-> "ok"]
        ELSE LET t == DeletedFolders(cmap, old, paths, driveID) IN
             [deltaURLs |-> durls1, folderPaths |-> fpaths1,
              excludedItems |-> exItems, cmap |-> t.cmap, res |-> t.res]

CurDrive == Drives[driveIdx]

\* the item events the pager of the current drive may return
CurItems == IF driveIdx \in 1..Len(Drives) THEN ItemsOf(Drives[driveIdx]) ELSE {}

\* Get returned an error, or the process died: nothing of the run is left
Abort(how) ==
    /\ pc' = how
    /\ prevDeltas' = EmptyMap
    /\ oldPathsByDriveID' = EmptyMap
    /\ driveIdx' = 0
    /\ CollectionMap' = EmptyMap
    /\ NumItems' = 0
    /\ NumFiles' = 0
    /\ NumContainers' = 0
    /\ deltaURLs' = EmptyMap
    /\ folderPaths' = EmptyMap
    /\ excludedItems' = {}
    /\ oldPaths' = EmptyMap
    /\ newPaths' = EmptyMap
    /\ excluded' = {}
    /\ itemCollection' = EmptyMap
    /\ invalidPrevDelta' = FALSE
    /\ nEvents' = 0
    /\ nResets' = 0
    /\ seenSince' = {}
    /\ UNCHANGED <<cols, matcher>>

\* Get, lines 292-297, and the start of collectItems for drive d: the
\* previous delta and paths of the drive are looked up, newPaths starts as
\* a copy of oldPaths unless there is no previous delta
StartDrive(d, deltas, folders) ==
    LET prevDelta == Lookup(deltas, d)
        old == IF d \in DOMAIN folders THEN folders[d] ELSE EmptyMap
        invalid == Len(prevDelta) = 0
    IN  /\ oldPaths' = old
        /\ invalidPrevDelta' = invalid
        /\ newPaths' = IF invalid THEN EmptyMap ELSE MapCopy(EmptyMap, old)
        /\ excluded' = {}
        /\ itemCollection' = EmptyMap
        /\ seenSince' = {}

\* Get, line 260: the previous metadata is deserialized; on success the
\* enumeration of the first drive starts
GetLoad ==
    /\ pc = "load"
    /\ LET r == deserializeMetadata(cols) IN
       IF r.err
       THEN /\ pc' = "failed"
            /\ UNCHANGED <<prevDeltas, oldPathsByDriveID, driveIdx, oldPaths, newPaths,
                           excluded, itemCollection, invalidPrevDelta, seenSince>>
       ELSE /\ pc' = "enum"
            /\ prevDeltas' = r.deltas
            /\ oldPathsByDriveID' = r.folders
            /\ driveIdx' = 1
            /\ StartDrive(Drives[1], r.deltas, r.folders)
    /\ UNCHANGED <<cols, matcher, CollectionMap, NumItems, NumFiles, NumContainers,
                   deltaURLs, folderPaths, excludedItems, nEvents, nResets>>
    /\ UNCHANGED <<failFast, itemVars, listVars, mergeVars, cacheVars>>

\* collectItems: the pager answers that the delta token is invalid; the
\* enumeration restarts without a token
InvalidDelta ==
    /\ pc = "enum"
    /\ nResets < MaxResets
    /\ invalidPrevDelta' = TRUE
    /\ newPaths' = EmptyMap
    /\ nResets' = nResets + 1
    /\ seenSince' = {}
    /\ UNCHANGED <<pc, cols, matcher, prevDeltas, oldPathsByDriveID, driveIdx,
                   CollectionMap, NumItems, NumFiles, NumContainers, deltaURLs,
                   folderPaths, excludedItems, oldPaths, excluded, itemCollection,
                   nEvents>>
    /\ UNCHANGED <<failFast, itemVars, listVars, mergeVars, cacheVars>>

\* the maps and counters UpdateCollections is handed; oldPaths and newPaths
\* are Go maps, so what it writes to either is seen by collectItems
LoopState ==
    [cmap |-> CollectionMap, oldPaths |-> oldPaths, newPaths |-> newPaths,
     excluded |-> excluded,
     itemCollection |-> itemCollection, NumItems |-> NumItems,
     NumFiles |-> NumFiles, NumContainers |-> NumContainers, res |-> "ok"]

\* UpdateCollections handles the next item of the page
UpdateCollections(item) ==
    /\ pc = "enum"
    /\ UNCHANGED <<failFast, itemVars, listVars, mergeVars, cacheVars>>
    /\ LET st == UpdateCollectionsItem(LoopState, item, CurDrive, oldPaths,
                                       invalidPrevDelta, matcher)
       IN  IF st.res # "ok"
           THEN Abort(IF st.res = "panic" THEN "panic" ELSE "failed")
           ELSE /\ CollectionMap' = st.cmap
                /\ oldPaths' = st.oldPaths
                /\ newPaths' = st.newPaths
                /\ excluded' = st.excluded
                /\ itemCollection' = st.itemCollection
                /\ NumItems' = st.NumItems
                /\ NumFiles' = st.NumFiles
                /\ NumContainers' = st.NumContainers
                /\ nEvents' = nEvents + 1
                /\ seenSince' = IF /\ ~item.deleted
                                   /\ item.kind \in {"root", "folder", "package"}
                                   /\ st # LoopState
                                THEN seenSince \cup {item.id} ELSE seenSince
                /\ UNCHANGED <<pc, cols, matcher, prevDeltas, oldPathsByDriveID,
                               driveIdx, deltaURLs, folderPaths, excludedItems,
                               invalidPrevDelta, nResets>>

\* collectItems returns after the last page (with the delta link deltaURL,
\* possibly empty), Get stores the drive's results and goes on to the next
\* drive, or returns
FinishDrive(deltaURL) ==
    /\ pc = "enum"
    /\ UNCHANGED <<failFast, itemVars, listVars, mergeVars, cacheVars>>
    /\ LET r == FinishOneDrive(CurDrive, deltaURL, invalidPrevDelta, newPaths, excluded,
                               oldPaths, deltaURLs, folderPaths, excludedItems,
                               CollectionMap)
       IN  IF r.res # "ok"
           THEN Abort(IF r.res = "panic" THEN "panic" ELSE "failed")
           ELSE /\ deltaURLs' = r.deltaURLs
                /\ folderPaths' = r.folderPaths
                /\ excludedItems' = r.excludedItems
                /\ CollectionMap' = r.cmap
                /\ IF driveIdx < Len(Drives)
                   THEN /\ pc' = "enum"
                        /\ driveIdx' = driveIdx + 1
                        /\ StartDrive(Drives[driveIdx + 1], prevDeltas, oldPathsByDriveID)
                   ELSE /\ pc' = "done"
                        /\ UNCHANGED <<driveIdx, oldPaths, newPaths, excluded,
                                       itemCollection, invalidPrevDelta, seenSince>>
                /\ UNCHANGED <<cols, matcher, prevDeltas, oldPathsByDriveID,
                               NumItems, NumFiles, NumContainers, nEvents, nResets>>

Blank ==
    /\ prevDeltas = EmptyMap
    /\ oldPathsByDriveID = EmptyMap
    /\ driveIdx = 0
    /\ CollectionMap = EmptyMap
    /\ NumItems = 0
    /\ NumFiles = 0
    /\ NumContainers = 0
    /\ deltaURLs = EmptyMap
    /\ folderPaths = EmptyMap
    /\ excludedItems = {}
    /\ oldPaths = EmptyMap
    /\ newPaths = EmptyMap
    /\ excluded = {}
    /\ itemCollection = EmptyMap
    /\ invalidPrevDelta = FALSE
    /\ nEvents = 0
    /\ nResets = 0
    /\ seenSince = {}

\* outside populateItems and mergeDetails; FailFast is off by default
Idle == failFast = FALSE /\ ItemsIdle /\ ListsIdle /\ MergeIdle /\ CacheIdle

\* a run of Get: the previous metadata and the selector are its inputs
Init ==
    /\ pc = "load"
    /\ \/ cols \in GetInputs /\ matcher = MatchAny
       \/ cols = MetadataOf(PrevNested, AllPrevDeltas) /\ matcher = MatchA
    /\ Blank
    /\ Idle

Next ==
    \/ GetLoad
    \/ InvalidDelta
    \/ nEvents < MaxEvents /\ \E item \in CurItems : UpdateCollections(item)
    \/ \E deltaURL \in {NoDelta, NewToken} : FinishDrive(deltaURL)

Spec == Init /\ [][Next]_vars

----------------------------------------------------------------------------
(* Runs of Get over the first drive's container tree: the pager returns    *)
(* root and container events only, more of them than in Spec, and every    *)
(* enumeration ends with a delta link.                                      *)

TreeItems ==
    IF driveIdx = 1
    THEN {item \in ItemsOf(Drives[1]) :
             item.kind \in {"root", "folder", "package"}}
    ELSE {}

InitTree ==
    /\ pc = "load"
    /\ cols \in GetInputs
    /\ matcher = MatchAny
    /\ Blank
    /\ Idle

NextTree ==
    \/ GetLoad
    \/ InvalidDelta
    \/ nEvents < MaxTreeEvents /\ \E item \in TreeItems : UpdateCollections(item)
    \/ FinishDrive(NewToken)

SpecTree == InitTree /\ [][NextTree]_vars

----------------------------------------------------------------------------
(* deserializeMetadata on arbitrary metadata files                          *)

\* the files a metadata collection may hold
MetaFiles ==
    {MetaFile(DeltaURLsFileName, TRUE, "d1" :> PrevToken),
     MetaFile(DeltaURLsFileName, TRUE, "d1" :> NoDelta),
     MetaFile(DeltaURLsFileName, TRUE, "d2" :> PrevToken),
     MetaFile(DeltaURLsFileName, TRUE, ("d1" :> NoDelta) @@ ("d2" :> PrevToken)),
     MetaFile(DeltaURLsFileName, FALSE, EmptyMap),
     MetaFile(PreviousPathFileName, TRUE, "d1" :> PrevNested["d1"]),
     MetaFile(PreviousPathFileName, TRUE, "d2" :> PrevNested["d2"]),
     MetaFile(PreviousPathFileName, TRUE, PrevNested),
     MetaFile("unknown", TRUE, EmptyMap)}

\* the files fs in their order, cut into collections behind the positions
\* of cuts
RECURSIVE GroupFrom(_, _, _, _)
GroupFrom(fs, cuts, i, acc) ==
    IF i > Len(fs) THEN acc
    ELSE IF i = 1 \/ (i - 1) \in cuts
    THEN GroupFrom(fs, cuts, i + 1, Append(acc, <<fs[i]>>))
    ELSE GroupFrom(fs, cuts, i + 1, [acc EXCEPT ![Len(acc)] = Append(@, fs[i])])

MetaInputs ==
    {GroupFrom(fs, cuts, 1, <<>>) :
        fs \in UNION {[1..k -> MetaFiles] : k \in 0..MaxFiles},
        cuts \in SUBSET (1..(MaxFiles - 1))}

InitMeta ==
    /\ pc = "load"
    /\ cols \in MetaInputs
    /\ matcher = MatchAny
    /\ Blank
    /\ Idle

NextMeta == GetLoad

SpecMeta == InitMeta /\ [][NextMeta]_vars

----------------------------------------------------------------------------
(* Collection.populateItems streaming the items of one collection          *)

\* the folder of two files
InitItems ==
    /\ pc = "idle" /\ cols = <<>> /\ matcher = MatchAny /\ Blank
    /\ failFast \in BOOLEAN
    /\ opc = "start"
    /\ driveItems = FileItems \cup {"dir"}
    /\ wpc = [i \in ItemIDs |-> "none"]
    /\ lazy = [i \in ItemIDs |-> NoReader]
    /\ errs = {}
    /\ semaphoreCh = 0
    /\ data = <<>>
    /\ received = {}
    /\ closes = 0
    /\ statuses = 0
    /\ ListsIdle
    /\ MergeIdle
    /\ CacheIdle

\* populateItems and its goroutines
NextPopulate ==
    \/ \E pathOK \in BOOLEAN : PopulateBegin(pathOK)
    \/ \E sees \in BOOLEAN : LoopCheck(sees)
    \/ \E i \in ItemIDs : StartWorker(i)
    \/ \E i \in ItemIDs, metaOK \in BOOLEAN : WorkerRun(i, metaOK)
    \/ Report

NextItems ==
    \/ NextPopulate
    \/ \E i \in ItemIDs : WorkerMeta(i)
    \/ Receive
    \/ \E i \in ItemIDs, outcome \in {"none", "unauthorized", "other"} :
           ReaderDownload(i, outcome)
    \/ \E i \in ItemIDs, ok \in BOOLEAN : ReaderRefetch(i, ok)
    \/ \E i \in ItemIDs : ReaderCheck(i)

SpecItems == InitItems /\ [][NextItems]_vars

----------------------------------------------------------------------------
(* The two pools with more tasks than slots: populateItems on a collection  *)
(* of sub-folder entries, read by a consumer, or loadSiteLists on a site     *)

InitPool ==
    /\ pc = "idle" /\ cols = <<>> /\ matcher = MatchAny /\ Blank
    /\ failFast \in BOOLEAN
    /\ wpc = [i \in ItemIDs |-> "none"]
    /\ lazy = [i \in ItemIDs |-> NoReader]
    /\ errs = {}
    /\ semaphoreCh = 0
    /\ data = <<>>
    /\ received = {}
    /\ closes = 0
    /\ statuses = 0
    /\ fpc = [l \in ListIDs |-> "none"]
    /\ fetchSem = 0
    /\ results = {}
    /\ et = {}
    /\ \/ opc = "start" /\ driveItems = PoolItems /\ lpc = "idle"
       \/ opc = "idle" /\ driveItems = {} /\ lpc = "loop"
    /\ MergeIdle
    /\ CacheIdle

\* loadSiteLists and its goroutines
NextLists ==
    \/ ListCheck
    \/ \E l \in ListIDs : StartFetch(l)
    \/ \E l \in ListIDs, outcome \in {"ok", "get", "contents", "fields"} : FetchRun(l, outcome)
    \/ ListsReturn

NextPool ==
    \/ NextPopulate
    \/ Receive
    \/ NextLists

SpecPool == InitPool /\ [][NextPool]_vars

----------------------------------------------------------------------------
(* populateItems with a consumer that reads until oc.data is closed         *)

\* FailFast is set: the loop ends at an error it sees or goes on as it does
\* without FailFast
InitStream ==
    /\ InitPool
    /\ failFast
    /\ opc = "start"

NextStream ==
    \/ NextPopulate
    \/ Receive

\* a goroutine that can run is scheduled, and the consumer reads until
\* oc.data is closed: the run does not stop while a step can be taken
SpecStream ==
    /\ InitStream
    /\ [][NextStream]_vars
    /\ WF_vars(NextStream)

----------------------------------------------------------------------------
(* mergeDetails on arbitrary base manifests and items to merge              *)

InitMerge ==
    /\ pc = "idle" /\ cols = <<>> /\ matcher = MatchAny /\ Blank
    /\ failFast = FALSE
    /\ ItemsIdle
    /\ ListsIdle
    /\ CacheIdle
    /\ mans \in ManifestInputs
    /\ shortRefsFromPrevBackup \in RefInputs
    /\ deets = NoDeets
    /\ knownFolders = EmptyMap
    /\ added = <<>>
    /\ Entries = <<>>
    /\ calls = NoCalls

NextMerge == MergeDetails

SpecMerge == InitMerge /\ [][NextMerge]_vars

\* all files of the input, in order
RECURSIVE Flatten(_)
Flatten(cs) == IF cs = <<>> THEN <<>> ELSE Head(cs) \o Flatten(Tail(cs))

FilesOf(cs) == {Flatten(cs)[i] : i \in 1..Len(Flatten(cs))}

Loaded == pc = "enum"

----------------------------------------------------------------------------
(* Runs of Get whose pages hold file events and deletes: a file can move    *)
(* between the containers of the first drive while they are deleted         *)

\* item events handed to UpdateCollections in one run of Get (SpecFiles)
MaxFileEvents == 3

FileRunItems ==
    {item \in CurItems : item.parentRef /\ (item.kind = "file" \/ item.deleted)}

InitFiles ==
    /\ pc = "load"
    /\ cols \in {<<>>, MetadataOf(PrevNested, AllPrevDeltas)}
    /\ matcher = MatchAny
    /\ Blank
    /\ Idle

NextFiles ==
    \/ GetLoad
    \/ InvalidDelta
    \/ nEvents < MaxFileEvents /\ \E item \in FileRunItems : UpdateCollections(item)
    \/ FinishDrive(NewToken)

SpecFiles == InitFiles /\ [][NextFiles]_vars

----------------------------------------------------------------------------
(* A first backup of the first drive: the root, three folders and two      *)
(* files in each folder; a file lying in the root itself may come as well.  *)
(* The pager returns each event at most once, in any order.                 *)

NameC == <<"c">>

\* folder id -> name
FirstRunFolders == ("A" :> NameA) @@ ("B" :> NameAB) @@ ("C" :> NameC)

\* file id -> id of its folder
FirstRunFiles ==
    ("a1" :> "A") @@ ("a2" :> "A") @@ ("b1" :> "B") @@ ("b2" :> "B")
    @@ ("c1" :> "C") @@ ("c2" :> "C")

RootFile == "r1"

FirstRunItems ==
    {Item("root", "root", FALSE, FALSE, "", <<>>, <<"root">>)}
    \cup {Item("folder", id, FALSE, TRUE, "root", RootDriveStr("d1"), FirstRunFolders[id]) :
            id \in DOMAIN FirstRunFolders}
    \cup {Item("file", f, FALSE, TRUE, FirstRunFiles[f],
               Under(RootDriveStr("d1"), FirstRunFolders[FirstRunFiles[f]]), <<"x">>) :
            f \in DOMAIN FirstRunFiles}
    \cup {Item("file", RootFile, FALSE, TRUE, "root", RootDriveStr("d1"), <<"x">>)}

\* the event was not returned yet
NotYetReturned(item) ==
    IF item.kind = "file" THEN item.id \notin DOMAIN itemCollection
    ELSE item.id \notin DOMAIN newPaths

InitFirstRun ==
    /\ pc = "load"
    /\ cols = <<>>
    /\ matcher = MatchAny
    /\ Blank
    /\ Idle

NextFirstRun ==
    \/ GetLoad
    \/ /\ driveIdx = 1
       /\ \E item \in FirstRunItems : NotYetReturned(item) /\ UpdateCollections(item)
    \/ FinishDrive(NewToken)

SpecFirstRun == InitFirstRun /\ [][NextFirstRun]_vars

----------------------------------------------------------------------------
(* A details.Builder receiving the folders of the items of a backup         *)

InitDetails ==
    /\ pc = "idle" /\ cols = <<>> /\ matcher = MatchAny /\ Blank
    /\ Idle

NextDetails ==
    \E parent \in ItemParents, itemInfo \in ItemInfos, updated \in BOOLEAN :
        AddFolders(parent, itemInfo, updated)

SpecDetails == InitDetails /\ [][NextDetails]_vars

----------------------------------------------------------------------------
(* A details.Builder filled by concurrent callers: the items are added, the *)
(* folders of two of the item folders are cached, and Details is called     *)

LedgerParents == {<<"u", "a">>, <<"u", "c">>}

LedgerInfo == [Size |-> 1, Modified |-> 1]

NextLedger ==
    \/ \E parent \in LedgerParents : AddFolders(parent, LedgerInfo, FALSE)
    \/ \E shortRef \in LedgerItems : Add(shortRef, FALSE, LedgerInfo)
    \/ Details

SpecLedger == InitDetails /\ [][NextLedger]_vars

----------------------------------------------------------------------------
(* An eventCalendarCache receiving calendars, some of them under a display  *)
(* name that was added before                                               *)

NextCache ==
    \E f \in Containers, pathOK \in BOOLEAN : AddToCache(f, pathOK)

SpecCache == InitDetails /\ [][NextCache]_vars

----------------------------------------------------------------------------
(* Claims about Collections.Get and Collections.UpdateCollections           *)

Returned == pc = "done"

\* the collections of the map that have a full path
Live(cmap) == {i \in DOMAIN cmap : cmap[i].folderPath # NilPath}

ExpectedState(prevPath, fullPath) ==
    IF fullPath = NilPath THEN "Deleted"
    ELSE IF prevPath = NilPath THEN "New"
    ELSE IF prevPath = fullPath THEN "NotMoved"
    ELSE "Moved"

\* C2: at every point of a run every collection of the collection map has
\* the state that its (prevPath, fullPath) determine: New without a
\* prevPath, NotMoved when both are equal, Moved when they differ, Deleted
\* without a fullPath; also after updateCollectionPaths / SetFullPath
\* rewrote the full path.
C2_StateIsFunctionOfPaths ==
    \A i \in DOMAIN CollectionMap :
        CollectionMap[i].state =
            ExpectedState(CollectionMap[i].prevPath, CollectionMap[i].folderPath)

\* the collection of B, made at <root>/a/a where the previous backup had
\* it, was carried to <root>/ab/a by the move of its parent A, and the
\* collection of A, made at <root>/a, was set to <root>/ab
C2_Witness ==
    /\ pc = "enum"
    /\ oldPaths = PrevNested["d1"]
    /\ "A" \in DOMAIN CollectionMap
    /\ "B" \in DOMAIN CollectionMap
    /\ CollectionMap["A"].folderPath = SplitPath(Under(RootStr("d1"), NameAB))
    /\ CollectionMap["A"].state = "Moved"
    /\ CollectionMap["B"].folderPath = SplitPath(Under(Under(RootStr("d1"), NameAB), NameA))
    /\ CollectionMap["B"].prevPath = SplitPath(Under(Under(RootStr("d1"), NameA), NameA))
    /\ CollectionMap["B"].state = "Moved"

\* the path string a live item gets: canonical parent path plus name
ItemPathStr(item) == PathString(Append(GetCanonicalPath(item.parentPath), item.name))

\* the selector does not skip the item (lines 583-588)
Selected(item) ==
    LET collectionPath ==
            GetCanonicalPath(IF item.deleted THEN oldPaths[item.parentId]
                             ELSE item.parentPath)
        itemPath == IF item.deleted THEN NilPath ELSE Append(collectionPath, item.name)
    IN  ~(/\ shouldSkipDrive(matcher, itemPath, item.kind \notin {"folder", "package"})
          /\ shouldSkipDrive(matcher, collectionPath, FALSE))

\* UpdateCollections handled item and went on to the next one
Handled(item) == UpdateCollections(item) /\ pc' = "enum"

\* C3: when a folder upsert changes the path of an id that is in newPaths
\* from P to Q, then afterwards newPaths[id] = Q and every entry whose value
\* had P as a prefix has Q in place of that prefix, the rest unchanged.
C3_SubtreeFollowsMove ==
    [][\A item \in CurItems :
          (/\ item.kind \in {"folder", "package"}
           /\ ~item.deleted
           /\ item.parentRef
           /\ Selected(item)
           /\ item.id \in DOMAIN newPaths
           /\ newPaths[item.id] # ItemPathStr(item)
           /\ Handled(item))
          => LET P == newPaths[item.id]
                 Q == ItemPathStr(item)
             IN  /\ DOMAIN newPaths' = DOMAIN newPaths
                 /\ newPaths'[item.id] = Q
                 /\ \A k \in DOMAIN newPaths :
                       HasPrefix(newPaths[k], P)
                       => newPaths'[k] = Q \o SubSeq(newPaths[k], Len(P) + 1, Len(newPaths[k]))
      ]_vars

\* one event moved A from <root>/a to <root>/ab, and B, which got no event,
\* went from <root>/a/a to <root>/ab/a
C3_Witness ==
    /\ pc = "enum"
    /\ ~invalidPrevDelta
    /\ nEvents = 1
    /\ oldPaths = PrevNested["d1"]
    /\ DOMAIN newPaths = DOMAIN oldPaths
    /\ newPaths["A"] = Under(RootStr("d1"), NameAB)
    /\ newPaths["B"] = Under(Under(RootStr("d1"), NameAB), NameA)
    /\ newPaths["root"] = oldPaths["root"]

\* both exclusion entries of a file id
BothSuffixes(id) == {<<id, DataFileSuffix>>, <<id, MetaFileSuffix>>}

\* Get stored the results of the current drive and went on
Finished(deltaURL) == FinishDrive(deltaURL) /\ pc' \in {"enum", "done"}

\* C4 (as stated): every file the server reports as changed or deleted while
\* invalidPrevDelta is false has its .data and .meta entries in the
\* exclusion set; while invalidPrevDelta is true no exclusion is added.
C4_EveryReportedFileExcluded ==
    [][\A item \in CurItems :
          (item.kind = "file" /\ item.parentRef /\ Handled(item))
          => IF ~invalidPrevDelta
             THEN BothSuffixes(item.id) \subseteq excluded'
             ELSE excluded' = excluded
      ]_vars

\* C4: a file event that UpdateCollections does not drop (a delete names a
\* parent the previous paths hold, an upsert is not skipped by the selector)
\* adds the file's .data and .meta entries to the exclusions while
\* invalidPrevDelta is false and adds nothing while it is true; a dropped
\* file event adds nothing; and Get returns the exclusions of a drive
\* exactly when the drive's enumeration was not reset.
C4_HandledFilesExcluded ==
    [][/\ \A item \in CurItems :
             (item.kind = "file" /\ item.parentRef /\ Handled(item))
             => IF /\ ~invalidPrevDelta
                   /\ item.deleted => item.parentId \in DOMAIN oldPaths
                   /\ ~item.deleted => Selected(item)
                THEN excluded' = excluded \cup BothSuffixes(item.id)
                ELSE excluded' = excluded
       /\ \A deltaURL \in {NoDelta, NewToken} :
             Finished(deltaURL)
             => excludedItems' = IF invalidPrevDelta THEN excludedItems
                                 ELSE excludedItems \cup excluded
      ]_vars

\* Get returned both exclusion entries of the file f of the first drive
C4_Witness ==
    /\ Returned
    /\ BothSuffixes("f") \subseteq excludedItems

\* the tombstone of a folder whose previous path string is prevStr
IsTombstone(col, prevStr, doNotMerge) ==
    /\ col.folderPath = NilPath
    /\ col.prevPath = SplitPath(prevStr)
    /\ col.state = "Deleted"
    /\ col.doNotMergeItems = doNotMerge

\* C5: a folder or package delete event removes the id from newPaths and,
\* when the previous paths hold the id, leaves a tombstone (no fullPath,
\* prevPath the previous path, state Deleted, doNotMerge = invalidPrevDelta)
\* in the collection map, whatever parent the event names.
C5_DeleteLeavesTombstone ==
    [][\A item \in CurItems :
          (/\ item.kind \in {"folder", "package"}
           /\ item.deleted
           /\ item.parentRef
           /\ Handled(item))
          => /\ item.id \notin DOMAIN newPaths'
             /\ item.id \in DOMAIN oldPaths
                => /\ item.id \in DOMAIN CollectionMap'
                   /\ IsTombstone(CollectionMap'[item.id], oldPaths[item.id],
                                  invalidPrevDelta)
      ]_vars

\* the previous delta token of the current drive was found invalid
WasReset == invalidPrevDelta /\ Len(Lookup(prevDeltas, CurDrive)) > 0

\* C6: when the enumeration of a drive is reset, in whatever paging state,
\* every collection of the drive that Get returns has doNotMergeItems set,
\* and the paths persisted for the drive come from events seen after the
\* restart only.
C6_ResetMarksEveryCollection ==
    [][\A deltaURL \in {NoDelta, NewToken} :
          (Finished(deltaURL) /\ WasReset)
          => /\ \A i \in DOMAIN CollectionMap' :
                   CollectionMap'[i].driveID = CurDrive
                   => CollectionMap'[i].doNotMergeItems
             /\ DOMAIN folderPaths'[CurDrive] \subseteq seenSince
      ]_vars

\* the full path strings of the collections that have a full path
LivePaths(cmap) == {PathString(cmap[i].folderPath) : i \in Live(cmap)}

\* C7: when Get finishes a drive, every container id that is in the
\* previous paths but not in the new paths, and whose previous path is not
\* the full path of a collection made in this run, has a collection with
\* state Deleted and prevPath equal to its previous path; in reset runs and
\* in runs that were not reset.
C7_GoneFoldersHaveTombstones ==
    [][\A deltaURL \in {NoDelta, NewToken} :
          Finished(deltaURL)
          => \A i \in DOMAIN oldPaths :
                (/\ i \notin DOMAIN newPaths
                 /\ oldPaths[i] \notin LivePaths(CollectionMap))
                => /\ i \in DOMAIN CollectionMap'
                   /\ CollectionMap'[i].state = "Deleted"
                   /\ CollectionMap'[i].prevPath = SplitPath(oldPaths[i])
      ]_vars

\* the enumeration of the first drive was reset and has finished
FirstDriveWasReset ==
    /\ pc = "enum"
    /\ driveIdx = 2
    /\ nResets = 1
    /\ ~invalidPrevDelta
    /\ Len(Lookup(prevDeltas, "d2")) > 0

\* the reset enumeration of the first drive saw the root and A again, not
\* B: Get made the tombstone of B
C7_Witness ==
    /\ FirstDriveWasReset
    /\ oldPathsByDriveID["d1"] = PrevNested["d1"]
    /\ DOMAIN folderPaths["d1"] = {"root", "A"}
    /\ "B" \in DOMAIN CollectionMap
    /\ IsTombstone(CollectionMap["B"], PrevNested["d1"]["B"], TRUE)

\* a Deleted collection for the previous path prevStr is in the map
TombstoneFor(cmap, prevStr) ==
    \E i \in DOMAIN cmap :
        cmap[i].state = "Deleted" /\ cmap[i].prevPath = SplitPath(prevStr)

Holders(cmap, f) == {c \in DOMAIN cmap : f \in cmap[c].driveItems}

C12_ParentPathKnown ==
    /\ [][\A item \in CurItems :
            (/\ item.kind = "file" /\ ~item.deleted /\ item.parentRef
             /\ Handled(item) /\ Selected(item)) =>
                item.parentId \in DOMAIN newPaths]_vars
    /\ [][\A deltaURL \in {NoDelta, NewToken} :
            Finished(deltaURL) =>
                \A f \in DOMAIN itemCollection :
                    itemCollection[f] \in DOMAIN folderPaths'[CurDrive]]_vars


\* C13: after a folder delete event the paths map persisted for the drive
\* holds no entry whose path lies under the previous path of the deleted
\* folder, even when no delete event came for the nested folders: when an
\* enumeration that was not reset ends, no entry kept from the previous
\* backup lies under the previous path of a tombstone of the drive.
C13_NothingPersistedUnderDeleted ==
    [][\A deltaURL \in {NoDelta, NewToken} :
        (~invalidPrevDelta /\ Finished(deltaURL)) =>
            \A c \in DOMAIN CollectionMap :
                (/\ CollectionMap[c].driveID = CurDrive
                 /\ CollectionMap[c].folderPath = NilPath) =>
                    \A x \in DOMAIN folderPaths'[CurDrive] :
                        (x \notin seenSince /\ x \in DOMAIN oldPaths) =>
                            ~HasPrefix(folderPaths'[CurDrive][x],
                                       PathString(CollectionMap[c].prevPath) \o <<Sep>>)]_vars


\* C15: a malformed item event (no parent reference) does not abort the run
\* unless failFast is set: with failFast off the enumeration goes on after
\* the event.
C15_MalformedEventDoesNotAbort ==
    [][\A item \in CurItems :
        (/\ item.kind # "root" /\ ~item.parentRef /\ ~failFast
         /\ UpdateCollections(item)) =>
            pc' = "enum" /\ nEvents' = nEvents + 1]_vars


\* C16: a root item event sets newPaths[rootID] to the canonical root path
\* of the drive and changes nothing else: no collection is created or
\* changed, no exclusion is added, no file is registered and no counter
\* changes.
C16_RootSetsOnlyItsPath ==
    [][\A item \in CurItems :
        (item.kind = "root" /\ UpdateCollections(item)) =>
            /\ pc' = "enum"
            /\ newPaths' = [x \in (DOMAIN newPaths) \cup {item.id} |->
                               IF x = item.id THEN RootStr(CurDrive) ELSE newPaths[x]]
            /\ UNCHANGED <<CollectionMap, excluded, itemCollection, NumItems,
                           NumFiles, NumContainers, deltaURLs, folderPaths,
                           excludedItems, oldPaths, invalidPrevDelta>>]_vars

\* the root event of a first backup was handled
C16_Witness ==
    /\ pc = "enum" /\ driveIdx = 1 /\ nEvents = 1
    /\ DOMAIN newPaths = {"root"} /\ newPaths["root"] = RootStr("d1")
    /\ oldPaths = EmptyMap
    /\ CollectionMap = EmptyMap


\* C17: the persisted paths and delta maps do not depend on the iteration
\* order of a map or on another choice of the engine: whatever the order in
\* which the loop of updatePath visits newPaths, a handled root, folder or
\* package upsert yields the same newPaths, and at the end of a drive the
\* maps to persist are determined by newPaths and the delta link returned.
C17_SameMapsInEveryOrder ==
    /\ [][\A item \in CurItems :
            (/\ item.kind \in {"root", "folder", "package"} /\ ~item.deleted
             /\ (item.kind = "root" \/ item.parentRef)
             /\ Handled(item)
             /\ (item.kind = "root" \/ Selected(item))) =>
                \A order \in Orders(DOMAIN newPaths) :
                    newPaths' = updatePathInOrder(
                                    newPaths, item.id,
                                    IF item.kind = "root" THEN RootStr(CurDrive)
                                    ELSE ItemPathStr(item),
                                    order)]_vars
    /\ [][\A deltaURL \in {NoDelta, NewToken} :
            Finished(deltaURL) =>
                /\ folderPaths' = Put(folderPaths, CurDrive, newPaths)
                /\ deltaURLs' = IF deltaURL = NoDelta THEN deltaURLs
                                ELSE Put(deltaURLs, CurDrive, deltaURL)]_vars

\* a subtree move rewrote more than one entry of newPaths: A and the
\* nested B were carried from <root>/a to <root>/ab
C17_Witness ==
    /\ pc = "enum" /\ driveIdx = 1
    /\ {"A", "B"} \subseteq DOMAIN newPaths
    /\ newPaths["A"] = Under(RootStr("d1"), NameAB)
    /\ newPaths["B"] = Under(Under(RootStr("d1"), NameAB), NameA)
    /\ "B" \notin seenSince


\* the maps deserializeMetadata returns for the metadata files holding the
\* maps paths and deltas
Reloaded(paths, deltas) == deserializeMetadata(MetadataOf(paths, deltas))

FirstRunDone ==
    /\ Returned
    /\ {"root", "A", "B", "C"} \subseteq DOMAIN folderPaths["d1"]
    /\ \A i \in DOMAIN CollectionMap :
           CollectionMap[i].driveItems \ {RootFile} =
               {f \in DOMAIN FirstRunFiles : FirstRunFiles[f] = i}
                   \cup ({i} \cap DOMAIN FirstRunFolders)
    /\ {"A", "B", "C"} \subseteq DOMAIN CollectionMap

\* C19 (as stated): on a first run where the server returns the root,
\* folders A, B and C and two files in each, the engine emits four
\* collections (root, A, B, C), all with state New, newPaths has 4 entries,
\* the persisted delta URL is non-empty and the exclusion set is empty.
C19_FourNewCollections ==
    FirstRunDone =>
        /\ DOMAIN CollectionMap = {"root", "A", "B", "C"}
        /\ \A i \in DOMAIN CollectionMap : CollectionMap[i].state = "New"
        /\ DOMAIN folderPaths["d1"] = {"root", "A", "B", "C"}
        /\ "d1" \in DOMAIN deltaURLs /\ deltaURLs["d1"] # NoDelta
        /\ excludedItems = {}

\* C19 (amended): the engine emits the collections of A, B and C, each with
\* state New and holding its folder and its two files; the root event makes
\* no collection, and a root collection exists only when a file lies in the
\* root itself, then with state NotMoved; the persisted paths have the 4
\* entries, the persisted delta URL is non-empty and the exclusion set is
\* empty.
C19_ThreeNewCollections ==
    FirstRunDone =>
        /\ DOMAIN CollectionMap \ {"root"} = {"A", "B", "C"}
        /\ \A i \in {"A", "B", "C"} : CollectionMap[i].state = "New"
        /\ "root" \in DOMAIN CollectionMap <=>
               \E i \in DOMAIN CollectionMap : RootFile \in CollectionMap[i].driveItems
        /\ "root" \in DOMAIN CollectionMap =>
               /\ CollectionMap["root"].state = "NotMoved"
               /\ CollectionMap["root"].driveItems = {RootFile}
        /\ DOMAIN folderPaths["d1"] = {"root", "A", "B", "C"}
        /\ "d1" \in DOMAIN deltaURLs /\ deltaURLs["d1"] # NoDelta
        /\ excludedItems = {}
        /\ NumContainers = Cardinality(DOMAIN CollectionMap)

\* the scenario as the specification words it: no file in the root
C19_Witness ==
    /\ FirstRunDone
    /\ \A i \in DOMAIN CollectionMap : RootFile \notin CollectionMap[i].driveItems
    /\ NumFiles = 6

\* the previous paths of drive d, as deserializeMetadata loaded them
LoadedPaths(d) ==
    IF d \in DOMAIN oldPathsByDriveID THEN oldPathsByDriveID[d] ELSE EmptyMap

\* a step of UpdateCollections that handled an item event and went on: no
\* other step counts an event
EventHandled == pc = "enum" /\ pc' = "enum" /\ nEvents' = nEvents + 1

\* C29: UpdateCollections never modifies oldPaths: while the items of a
\* drive are enumerated oldPaths is the map loaded from the previous backup
\* for that drive, and no item event handled changes it; the path changes
\* are made to newPaths.
C29_OldPathsNeverModified ==
    /\ [](pc = "enum" => oldPaths = LoadedPaths(CurDrive))
    /\ [][EventHandled => oldPaths' = oldPaths]_vars

\* events were handled that moved a folder the previous backup knew and
\* dropped another from newPaths; oldPaths still has both
C29_Witness ==
    /\ pc = "enum"
    /\ nEvents >= 1
    /\ \E id \in DOMAIN oldPaths \cap DOMAIN newPaths : newPaths[id] # oldPaths[id]

\* a folder the previous backup knew was deleted: newPaths dropped it,
\* oldPaths did not
C29_WitnessDeleted ==
    /\ pc = "enum"
    /\ nEvents >= 1
    /\ \E id \in DOMAIN oldPaths : id \notin DOMAIN newPaths /\ ~invalidPrevDelta

\* an upsert of a file, folder or package that names its parent and has a
\* name: the events that reach the selector test with both paths built
Upsert(item) ==
    /\ ~item.deleted
    /\ item.kind # "root"
    /\ item.parentRef
    /\ Len(item.name) > 0

\* the selector includes neither the path of the item nor the path of its
\* parent collection
SelectorExcludes(item) ==
    LET collectionPath == GetCanonicalPath(item.parentPath)
        itemPath == Append(collectionPath, item.name)
    IN  /\ ~includePath(matcher, itemPath, item.kind \notin {"folder", "package"})
        /\ ~includePath(matcher, collectionPath, FALSE)

\* the upsert was processed: a container has its path and its collection,
\* a file is held by the collection of its parent
Processed(st, item) ==
    IF item.kind = "file"
    THEN /\ item.id \in DOMAIN st.itemCollection
         /\ st.itemCollection[item.id] = item.parentId
         /\ item.parentId \in DOMAIN st.cmap
         /\ item.id \in st.cmap[item.parentId].driveItems
    ELSE /\ item.id \in DOMAIN st.newPaths
         /\ st.newPaths[item.id] = ItemPathStr(item)
         /\ item.id \in DOMAIN st.cmap

InSubtree(s, p) == s = p \/ HasPrefix(s, p \o <<Sep>>)

\* C31: a folder rename changes only the newPaths entries of the renamed
\* folder and of its descendants: when a folder upsert moves an id of
\* newPaths from P to Q, every entry whose path is neither P nor below P is
\* unchanged, also that of a sibling whose name begins with the name of the
\* renamed folder.
C31_RenameLeavesOthers ==
    [][\A item \in CurItems :
          (/\ pc = "enum" /\ pc' = "enum"
           /\ item.kind \in {"folder", "package"}
           /\ ~item.deleted
           /\ item.parentRef
           /\ item.id \in DOMAIN newPaths
           /\ newPaths[item.id] # ItemPathStr(item)
           /\ \E k \in DOMAIN newPaths :
                  /\ ~InSubtree(newPaths[k], newPaths[item.id])
                  /\ (k \notin DOMAIN newPaths' \/ newPaths'[k] # newPaths[k])
           /\ Selected(item))
          => ~UpdateCollections(item)]_vars

\* every folder with a live collection and an entry in paths has the path of
\* the entry as the fullPath of the collection
PathsAgree(cmap, paths) ==
    \A id \in Live(cmap) \cap DOMAIN paths :
        PathString(cmap[id].folderPath) = paths[id]

\* C32: after every folder upsert event, each folder id that has a live
\* collection and an entry in newPaths has newPaths[id] as the fullPath of
\* its collection: a folder upsert handled in a state where the two agree
\* leaves them in agreement.
C32_CollectionPathsFollowNewPaths ==
    [][\A item \in CurItems :
          (/\ pc = "enum" /\ pc' = "enum"
           /\ item.kind \in {"folder", "package"}
           /\ ~item.deleted
           /\ item.parentRef
           /\ PathsAgree(CollectionMap, newPaths)
           /\ ~PathsAgree(CollectionMap', newPaths')
           /\ Selected(item))
          => ~UpdateCollections(item)]_vars

\* the ids whose collection is a tombstone: state Deleted, no fullPath
Tombstones(cmap) == {i \in DOMAIN cmap : cmap[i].folderPath = NilPath}

\* C33: the walks over the collection map tolerate the tombstones in it: no
\* step of Get taken while the map holds a tombstone (of this drive or of a
\* drive processed before) ends in a fault, and every tombstone is left as
\* it was.
C33_WalksTolerateTombstones ==
    [][(pc = "enum" /\ Tombstones(CollectionMap) # {})
          => /\ pc' # "panic"
             /\ \A i \in Tombstones(CollectionMap) :
                    \/ i \notin DOMAIN CollectionMap'
                    \/ CollectionMap'[i] = CollectionMap[i]
                    \/ \E item \in CurItems :
                          item.id = i /\ UpdateCollections(item)]_vars

\* C34: a folder delete event followed later in the run by an upsert of the
\* same folder id is processed without fault and leaves a live collection
\* under the id, at the upserted path, which is also newPaths[id].
C34_UpsertAfterDelete ==
    [][\A item \in CurItems :
          (/\ pc = "enum"
           /\ item.kind \in {"folder", "package"}
           /\ ~item.deleted
           /\ item.parentRef
           /\ Selected(item)
           /\ item.id \in Tombstones(CollectionMap)
           /\ UpdateCollections(item))
          => /\ pc' = "enum"
             /\ item.id \in Live(CollectionMap')
             /\ PathString(CollectionMap'[item.id].folderPath) = ItemPathStr(item)
             /\ Lookup(newPaths', item.id) = ItemPathStr(item)]_vars

\* C35: making a tombstone never discards live data: no step of Get that
\* goes on (a folder delete event, or the tombstones Get adds when a reset
\* drive ends) puts a tombstone in the place of a collection that holds
\* items registered in this run.
C35_TombstoneKeepsLiveData ==
    [][pc' \in {"enum", "done"}
          => \A i \in Live(CollectionMap) :
                 CollectionMap[i].driveItems # {}
                     => i \notin Tombstones(CollectionMap')]_vars

\* the file ids held in the item index of some collection
HeldFiles(cmap) ==
    {f \in FileIDs("d1") \cup FileIDs("d2") : Holders(cmap, f) # {}}

\* the delete event of a file reaches the file case: its parent is known in
\* the previous paths and the selector does not skip it
DeleteCounted(item) ==
    /\ item.deleted
    /\ item.parentId \in DOMAIN oldPaths
    /\ Selected(item)

\* C37: NumFiles is the number of distinct file ids held in the item
\* indexes of the collections plus the number of file delete events
\* processed: a handled file event moves NumFiles by as much as it moves
\* that sum, so a file upserted again, in the same or in another container,
\* is counted once.
C37_NumFilesCountsDistinct ==
    [][\A item \in CurItems :
          (item.kind = "file" /\ item.parentRef /\ Handled(item))
          => NumFiles' - NumFiles =
                 Cardinality(HeldFiles(CollectionMap'))
                     - Cardinality(HeldFiles(CollectionMap))
                     + (IF DeleteCounted(item) THEN 1 ELSE 0)]_vars

----------------------------------------------------------------------------
(* Claims about deserializeMetadata *)

\* C9: after deserializeMetadata returns without error the previous-delta
\* map and the previous-paths map have the same keys, no delta is empty,
\* and metadata holding files of one kind only loads as two empty maps.
C9_PairedAfterLoad ==
    Loaded =>
        /\ DOMAIN prevDeltas = DOMAIN oldPathsByDriveID
        /\ \A k \in DOMAIN prevDeltas : Len(prevDeltas[k]) > 0
        /\ (\A f \in FilesOf(cols) : f.name # PreviousPathFileName)
              => prevDeltas = EmptyMap /\ oldPathsByDriveID = EmptyMap
        /\ (\A f \in FilesOf(cols) : f.name # DeltaURLsFileName)
              => prevDeltas = EmptyMap /\ oldPathsByDriveID = EmptyMap

\* an input with an empty delta for d1, a usable delta for d2 and paths for
\* both loads as the entries of d2 alone
C9_Witness ==
    /\ Loaded
    /\ \E f \in FilesOf(cols) :
          f.name = DeltaURLsFileName /\ f.ok /\ "d1" \in DOMAIN f.body /\ f.body["d1"] = NoDelta
    /\ \E f \in FilesOf(cols) :
          f.name = PreviousPathFileName /\ f.ok /\ "d1" \in DOMAIN f.body
    /\ DOMAIN prevDeltas = {"d2"}
    /\ DOMAIN oldPathsByDriveID = {"d2"}

\* two decodable files of the same kind hold the same drive id
DuplicateKey(cs) ==
    LET fl == Flatten(cs) IN
    \E i, j \in 1..Len(fl) :
        /\ i < j
        /\ fl[i].name = fl[j].name
        /\ fl[i].name \in {PreviousPathFileName, DeltaURLsFileName}
        /\ fl[i].ok /\ fl[j].ok
        /\ (DOMAIN fl[i].body) \cap (DOMAIN fl[j].body) # {}

\* C10: metadata in which two files of the same kind hold the same drive id
\* fails the load, for every order of the files and every grouping of them
\* into collections.
C10_DuplicateFailsLoad ==
    (pc # "load" /\ DuplicateKey(cols)) => pc = "failed"

\* C36: the result of deserializeMetadata depends on the metadata files
\* only, not on their grouping into collections: the load of cols fails or
\* succeeds as the load of the same files in one collection does, and gives
\* the same two maps.
C36_GroupingIrrelevant ==
    pc # "load" =>
        LET r == deserializeMetadata(<<Flatten(cols)>>) IN
        IF r.err THEN pc = "failed"
        ELSE /\ Loaded
             /\ prevDeltas = r.deltas
             /\ oldPathsByDriveID = r.folders

----------------------------------------------------------------------------
(* Claims about Collection.populateItems                                    *)

\* the read of item i returned, after an unauthorized first download
ReadAfterUnauthorized(i) ==
    /\ lazy[i].st \in {"ok", "err"}
    /\ lazy[i].refetches = 1

\* C14: when the download of the lazy reader fails with an unauthorized
\* error the item is re-fetched once and the download is retried with the
\* refreshed item: a read that re-fetched the item with success has called
\* the item reader twice, and it fails only if the re-fetch failed or the
\* retried download failed.
C14_DownloadRetriedAfterRefetch ==
    \A i \in ItemIDs :
        ReadAfterUnauthorized(i) =>
            /\ lazy[i].item = "refreshed" => lazy[i].downloads = 2
            /\ lazy[i].st = "err" =>
                   \/ lazy[i].item = "nil"
                   \/ lazy[i].downloads = 2 /\ lazy[i].err # "none"

----------------------------------------------------------------------------
(* Claims about mergeDetails                                                *)

\* mergeDetails returned
Merged == deets # NoDeets

\* the complete manifests among the bases whose Reasons cover repo path p
CompleteCovering(p) ==
    {i \in DOMAIN mans : mans[i].IncompleteReason = "" /\ ReasonOf(p) \in mans[i].Reasons}

\* C20: for each item to merge, mergeDetails uses the single complete base
\* manifest whose Reasons cover the item's owner, service and category;
\* manifests with an IncompleteReason are ignored when matching; when more
\* than one complete manifest covers the reason of an item the merge fails.
C20_SingleCompleteBase ==
    Merged =>
        /\ (\E p \in DOMAIN shortRefsFromPrevBackup : Cardinality(CompleteCovering(p)) > 1)
               => deets.err # "none"
        /\ deets.err = "none" =>
               \A p \in DOMAIN shortRefsFromPrevBackup :
                   \E i \in CompleteCovering(p) :
                       /\ CompleteCovering(p) = {i}
                       /\ \E e \in deets.entries :
                              /\ e.RepoRef = shortRefsFromPrevBackup[p]
                              /\ e.Size = DetailsOf(mans[i].backupID)[p]

\* SomeBasesIncomplete: item1 is covered by the complete base bid1 and by
\* the incomplete base bid2, whose details hold another size for it; the
\* merge succeeded with the entry of bid1
C20_Witness ==
    /\ Merged /\ deets.err = "none"
    /\ DOMAIN shortRefsFromPrevBackup = {itemPath1}
    /\ Len(mans) = 2
    /\ mans[1].backupID = "bid1" /\ mans[1].IncompleteReason = ""
    /\ mans[2].backupID = "bid2" /\ mans[2].IncompleteReason = "checkpoint"
    /\ pathReason1 \in mans[1].Reasons /\ pathReason1 \in mans[2].Reasons
    /\ \E e \in deets.entries : e.Size = 42

\* the previous repo path p has no entry in the details of the one complete
\* base that covers it
MissingInBase(p) ==
    \E i \in CompleteCovering(p) :
        /\ CompleteCovering(p) = {i}
        /\ p \notin DOMAIN DetailsOf(mans[i].backupID)

\* C21: if mergeDetails returns no error, the merged details hold exactly
\* one item entry for every PrevRefs entry it was asked to merge; a
\* requested item whose previous repo path has no entry in the details of
\* the selected base makes the merge fail instead of being dropped.
C21_EveryRequestedItemMerged ==
    Merged =>
        /\ deets.err = "none" =>
               /\ Cardinality(deets.entries) = Cardinality(DOMAIN shortRefsFromPrevBackup)
               /\ \A p \in DOMAIN shortRefsFromPrevBackup :
                      Cardinality({e \in deets.entries :
                                      e.RepoRef = shortRefsFromPrevBackup[p]}) = 1
        /\ (\E p \in DOMAIN shortRefsFromPrevBackup : MissingInBase(p))
               => deets.err # "none"

\* MultipleBases: two items, each merged from its own base
C21_Witness ==
    /\ Merged /\ deets.err = "none"
    /\ DOMAIN shortRefsFromPrevBackup = {itemPath1, itemPath3}
    /\ Cardinality(deets.entries) = 2

\* BaseMissingItems: item2 is asked for and the base bid1 does not hold it
C21_WitnessMissing ==
    /\ Merged /\ deets.err = "MissingBase"
    /\ DOMAIN shortRefsFromPrevBackup = {itemPath1, itemPath2}
    /\ Len(mans) = 1 /\ mans[1].backupID = "bid1"
    /\ MissingInBase(itemPath2)

\* C22: every details entry emitted by the merge carries the new repo path
\* of a requested item and has Updated = true iff that path differs from
\* the repo path of the prior entry; an item merged at an unchanged path
\* has Updated = false.
C22_UpdatedIffPathChanged ==
    Merged =>
        /\ \A e \in deets.entries :
               \E p \in DOMAIN shortRefsFromPrevBackup :
                   /\ e.RepoRef = shortRefsFromPrevBackup[p]
                   /\ e.Updated <=> (shortRefsFromPrevBackup[p] # p)
        /\ deets.err = "none" =>
               \A p \in DOMAIN shortRefsFromPrevBackup :
                   shortRefsFromPrevBackup[p] = p =>
                       \E e \in deets.entries : e.RepoRef = p /\ ~e.Updated

\* ItemMoved and ItemMerged in one call: item1 moved, item3 stayed
C22_Witness ==
    /\ Merged /\ deets.err = "none"
    /\ DOMAIN shortRefsFromPrevBackup = {itemPath1, itemPath3}
    /\ \E e \in deets.entries : e.RepoRef = MovedPath(itemPath1) /\ e.Updated
    /\ \E e \in deets.entries : e.RepoRef = itemPath3 /\ ~e.Updated

----------------------------------------------------------------------------
(* Claims about details.Builder                                             *)

\* the calls of AddFoldersForItem so far whose item lies under folder
Under23(folder) ==
    {i \in DOMAIN added :
        /\ Len(folder) <= Len(added[i].parent)
        /\ SubSeq(added[i].parent, 1, Len(folder)) = folder}

RECURSIVE SumOfSizes(_)
SumOfSizes(is) ==
    IF is = {} THEN 0
    ELSE LET i == CHOOSE x \in is : TRUE
         IN  added[i].info.Size + SumOfSizes(is \ {i})

\* the ancestor folders of the items
AncestorFolders ==
    UNION {{SubSeq(p, 1, n) : n \in 1..Len(p)} : p \in ItemParents}

\* C23: after any sequence of AddFoldersForItem calls, each ancestor folder
\* of an added item has one cached entry, whose Size is the sum of the sizes
\* of the items added under it, whose Modified is the latest modification
\* time among them and whose Updated is true iff one of them was added with
\* updated = true; a folder without items has no entry.
C23_FolderEntriesAggregate ==
    /\ DOMAIN knownFolders = {f \in AncestorFolders : Under23(f) # {}}
    /\ \A f \in DOMAIN knownFolders :
           /\ knownFolders[f].ShortRef = f
           /\ knownFolders[f].Info.Size = SumOfSizes(Under23(f))
           /\ \E i \in Under23(f) : knownFolders[f].Info.Modified = added[i].info.Modified
           /\ \A i \in Under23(f) : added[i].info.Modified <= knownFolders[f].Info.Modified
           /\ knownFolders[f].Updated <=> \E i \in Under23(f) : added[i].updated

\* three items under folder u, two of them under u/a, one updated
C23_Witness ==
    /\ Len(added) = 3
    /\ Cardinality(Under23(<<"u", "a">>)) = 2
    /\ <<"u", "c">> \in DOMAIN knownFolders
    /\ knownFolders[<<"u">>].Info.Size = 5
    /\ knownFolders[<<"u">>].Updated /\ ~knownFolders[<<"u", "c">>].Updated

\* C38: the details ledger loses no update and is frozen at the end: the
\* first call of Details, after any interleaving of Add and
\* AddFoldersForItem calls, returns one entry per Add call and one entry
\* per known folder, and a call of Details that follows a call of Details
\* with no other call in between returns the same entries.
C38_LedgerFrozen ==
    [][calls'.details = calls.details + 1
          => /\ calls.details = 0
                   => /\ Len(Entries') = calls.adds + Cardinality(DOMAIN knownFolders)
                      /\ \A f \in DOMAIN knownFolders :
                             Cardinality({i \in DOMAIN Entries' :
                                 Entries'[i].Folder /\ Entries'[i].ShortRef = f}) = 1
             /\ calls.last = "Details" => Entries' = Entries]_vars

----------------------------------------------------------------------------
(* Claims about eventCalendarCache                                          *)

\* C39: a call of AddToCache that returns an error leaves the name-to-id
\* map behind DestinationNameToID as it was: no entry of the failed add is
\* left, and the id recorded earlier for the same display name is neither
\* removed nor replaced.
C39_FailedAddLeavesNames ==
    [][(/\ Len(addRet') = Len(addRet) + 1
        /\ addRet'[Len(addRet')] # "nil")
          => \A dest \in CalendarNames \cup {NoValue} :
                 DestinationNameToID(newAdditions', dest)
                     = DestinationNameToID(newAdditions, dest)]_vars

----------------------------------------------------------------------------
(* Claims about the pools of populateItems and loadSiteLists                *)

\* the goroutines started and not ended
Running(w) == {i \in DOMAIN w : w[i] \in {"started", "data"}}

\* C24: at no time do more tasks run than the semaphore has slots: at most
\* urlPrefetchChannelBufferSize item workers of populateItems and at most
\* fetchChannelSize list fetches of loadSiteLists, and the slots taken are
\* those of the running tasks.
C24_AtMostSemaphoreTasks ==
    /\ Cardinality(Running(wpc)) <= urlPrefetchChannelBufferSize
    /\ semaphoreCh = Cardinality(Running(wpc))
    /\ Cardinality(Running(fpc)) <= fetchChannelSize
    /\ fetchSem = Cardinality(Running(fpc))

\* the loop of populateItems waits for a slot: every slot is held by a
\* running worker and an item is left to start
C24_Witness ==
    /\ opc = "acquire"
    /\ Cardinality(Running(wpc)) = urlPrefetchChannelBufferSize
    /\ \E i \in driveItems : wpc[i] = "none"

\* the same in loadSiteLists
C24_WitnessLists ==
    /\ lpc = "acquire"
    /\ Cardinality(Running(fpc)) = fetchChannelSize
    /\ \E l \in ListIDs : fpc[l] = "none"

\* C25: in-flight tasks are awaited.  populateItems closes oc.data and
\* reports its status exactly once, after every worker it started has ended,
\* so no worker sends on the closed channel; loadSiteLists returns only
\* after every fetch it started has ended, with the lists they appended.
C25_InFlightAwaited ==
    /\ closes <= 1
    /\ statuses = closes
    /\ opc = "reported" <=> closes = 1
    /\ closes = 1 => Running(wpc) = {}
    /\ \A i \in ItemIDs : wpc[i] # "panic"
    /\ lpc = "returned" =>
           /\ Running(fpc) = {}
           /\ results = {l \in ListIDs : fpc[l] = "done"}

\* populateItems reported after the workers of all its items ended, some
\* with an error
C25_Witness ==
    /\ opc = "reported"
    /\ driveItems # {}
    /\ \A i \in driveItems : wpc[i] \in {"done", "failed"}
    /\ \E i \in driveItems : wpc[i] = "done"
    /\ \E i \in driveItems : wpc[i] = "failed"

\* loadSiteLists returned after a failing fetch stopped the loop
C25_WitnessLists ==
    /\ lpc = "returned"
    /\ \E l \in ListIDs : fpc[l] = "done"
    /\ \E l \in ListIDs : fpc[l] = "failed"
    /\ \E l \in ListIDs : fpc[l] = "none"

----------------------------------------------------------------------------
(* Claims about the stream of populateItems                                 *)

\* the stream items the goroutines have sent on oc.data
Sent ==
    {DataItem(i) : i \in {j \in ItemIDs : IsFile(j) /\ wpc[j] \in {"data", "done"}}}
        \cup {MetaItem(i) : i \in {j \in ItemIDs : wpc[j] = "done"}}

\* C26: the download of a file's bytes never starts before the consumer
\* reads from the item's reader: an item was downloaded only if the consumer
\* received its data item, and the calls of the item reader are made by the
\* reads of the consumer alone, never by a step of populateItems or of its
\* goroutines.
C26_DownloadOnlyOnRead ==
    /\ [](\A i \in ItemIDs : lazy[i].downloads > 0 => DataItem(i) \in received)
    /\ [][\A i \in ItemIDs :
              lazy'[i].downloads # lazy[i].downloads =>
                  /\ DataItem(i) \in received
                  /\ <<opc, wpc, data, received, closes>>' =
                         <<opc, wpc, data, received, closes>>]_vars

\* populateItems sent every item and reported, the consumer received them
\* all, and no download call was made
C26_Witness ==
    /\ opc = "reported"
    /\ \A i \in FileItems : DataItem(i) \in received /\ lazy[i].downloads = 0
    /\ data = <<>>

\* a file was downloaded while the data item of the other was received and
\* never read
C26_WitnessRead ==
    /\ opc = "reported"
    /\ \E i, j \in FileItems :
           /\ lazy[i].st = "ok" /\ lazy[i].downloads = 1
           /\ DataItem(j) \in received /\ lazy[j].downloads = 0

\* the stream items in the buffer of oc.data
Buffered == {data[n] : n \in 1..Len(data)}

\* oc.data holds what was sent and not received yet, each item once, within
\* its bounded buffer
StreamKept ==
    /\ Len(data) <= collectionChannelBufferSize
    /\ Cardinality(Buffered) = Len(data)
    /\ Buffered \cap received = {}
    /\ Buffered \cup received = Sent

\* populateItems ended and the consumer has every item that was sent
StreamDone ==
    /\ opc = "reported"
    /\ closes = 1
    /\ data = <<>>
    /\ received = Sent

\* C27: the item channel gives back-pressure without loss or deadlock: the
\* buffer never holds more than collectionChannelBufferSize items, every
\* stream item sent is in the buffer once or was received once, and with a
\* consumer that reads until the channel is closed populateItems ends,
\* closes the channel, and the consumer gets everything that was sent.
C27_BackPressureNoLossNoDeadlock ==
    /\ []StreamKept
    /\ (opc = "start") ~> StreamDone

\* the buffer is full and a goroutine waits to send its item
C27_Witness ==
    /\ Len(data) = collectionChannelBufferSize
    /\ \E i \in driveItems : wpc[i] = "started"
    /\ opc = "wait"

\* a step starts the goroutine of an item of populateItems
StartsWorker == \E i \in ItemIDs : wpc[i] = "none" /\ wpc'[i] # "none"

\* a step starts the fetch of a list of loadSiteLists
StartsFetch == \E l \in ListIDs : fpc[l] = "none" /\ fpc'[l] # "none"

\* C28: with failFast set, once the error of a task is recorded no further
\* task is started: populateItems starts no item worker and loadSiteLists no
\* list fetch in a state where an error is recorded.
C28_NoStartAfterError ==
    [][failFast =>
           /\ errs # {} => ~StartsWorker
           /\ et # {} => ~StartsFetch]_vars

----------------------------------------------------------------------------
(* Claims about loadSiteLists                                               *)

\* C40: a list is in the results of loadSiteLists if and only if its own
\* fetch and all of its content fetches succeeded: no list with a recorded
\* error is in results, every list whose goroutine ended without an error
\* is, and a list whose fetch failed has its error in the aggregator.
C40_ResultsIffAllFetched ==
    /\ \A l \in results : l \notin et
    /\ \A l \in ListIDs :
           /\ (fpc[l] = "done" /\ l \notin et) => l \in results
           /\ fpc[l] = "failed" => l \in et

====
